---- MODULE Spec2Model ----
(***************************************************************************)
(* A model of the Superset job-posting automation                          *)
(* (src/smart_post/services/automate_poster_v1.py).                        *)
(*                                                                         *)
(* The program drives a remote browser through Selenium.  Every call into  *)
(* the browser (locating an element, clicking, typing, running a script,   *)
(* taking a screenshot, quitting) either completes or raises.  The model   *)
(* gives each such call an outcome drawn from Outcome.  A method is an     *)
(* operator of the script o of its own browser calls (o[i] is the outcome  *)
(* of the i-th call site, in source order) and of the results of the       *)
(* methods it calls; its result names the value returned (ret), the call   *)
(* sites executed (tried) and the effects left on the page.                *)
(***************************************************************************)
EXTENDS Integers, Sequences, FiniteSets, TLC

(***************************************************************************)
(* Outcomes of one browser call.  "ok": the call completed.  The others    *)
(* name the exception raised: the three Selenium classes the source        *)
(* imports and catches by name, any other WebDriverException ("WebDriver", *)
(* e.g. a stale or non-interactable element), and an exception that is not *)
(* a WebDriverException ("Error", e.g. a refused connection).              *)
(***************************************************************************)
Outcome == {"ok", "Timeout", "NoSuchElement", "Intercepted", "WebDriver", "Error"}

Fault == Outcome \ {"ok"}

\* Python's `except cls` matches fault f: the class hierarchy of
\* selenium.common.exceptions under Exception.
IsA(f, cls) ==
    \/ cls = "Exception"
    \/ cls = "WebDriverException" /\ f \in {"Timeout", "NoSuchElement", "Intercepted", "WebDriver"}
    \/ cls = "TimeoutException" /\ f = "Timeout"
    \/ cls = "NoSuchElementException" /\ f = "NoSuchElement"
    \/ cls = "ElementClickInterceptedException" /\ f = "Intercepted"

\* The position of the first call of o[from..to] that raises, 0 when none does:
\* where a straight-line try body stops.
FirstFault(o, from, to) ==
    IF \E i \in from..to : o[i] # "ok"
    THEN CHOOSE i \in from..to : o[i] # "ok" /\ \A j \in from..(i - 1) : o[j] = "ok"
    ELSE 0

\* The call sites of from..to executed when the first fault is at k (0: none).
Ran(k, from, to) == IF k = 0 THEN from..to ELSE from..k

\* Return values of a method: the two booleans, None, or an exception leaving it.
RetTrue == "True"
RetFalse == "False"
RetNone == "None"
RetRaise == "Raise"

(***************************************************************************)
(* Scripts.  The executions of a method are the scripts that differ only   *)
(* at call sites the method reaches: starting from the script where every  *)
(* call completes, a fault is put at a reached site after the last fault   *)
(* put, repeatedly.  Every distinct execution is drawn exactly once.       *)
(***************************************************************************)
AllOk(n) == [i \in 1..n |-> "ok"]

RECURSIVE Extend(_, _, _)
Extend(Op(_), o, last) ==
    {o} \cup UNION {Extend(Op, [o EXCEPT ![i] = f], i) :
                        i \in {j \in Op(o).tried : j > last}, f \in Fault}

Executions(Op(_), n) == Extend(Op, AllOk(n), 0)

(***************************************************************************)
(* ElementInteraction: the three interaction primitives.                   *)
(***************************************************************************)

\* A safe_click that falls back to the script click on every native failure.
safe_click_AnyFault(o) ==
    LET k == FirstFault(o, 1, 2)
    IN  IF k = 0
        THEN [ret |-> RetTrue, tried |-> {1, 2}, clicks |-> <<"native">>]
        ELSE [ret |-> IF o[3] = "ok" THEN RetTrue ELSE RetFalse,
              tried |-> Ran(k, 1, 2) \cup {3},
              clicks |-> IF o[3] = "ok" THEN <<"script">> ELSE <<>>]

\* A safe_click whose fallback is not guarded by its own try.
safe_click_Unguarded(o) ==
    LET k == FirstFault(o, 1, 2)
    IN  IF k = 0
        THEN [ret |-> RetTrue, tried |-> {1, 2}, clicks |-> <<"native">>]
        ELSE IF IsA(o[k], "ElementClickInterceptedException")
        THEN [ret |-> IF o[3] = "ok" THEN RetTrue ELSE RetRaise,
              tried |-> Ran(k, 1, 2) \cup {3},
              clicks |-> IF o[3] = "ok" THEN <<"script">> ELSE <<>>]
        ELSE [ret |-> RetFalse, tried |-> Ran(k, 1, 2), clicks |-> <<>>]

\* safe_click(element).  o[1]: execute_script(scrollIntoView), o[2]:
\* element.click(), o[3]: execute_script(click), made only in the handler of
\* ElementClickInterceptedException.  clicks: the clicks that registered.
safe_click(o) ==
    LET k == FirstFault(o, 1, 2)
    IN  IF k = 0
        THEN [ret |-> RetTrue, tried |-> {1, 2}, clicks |-> <<"native">>]
        ELSE IF IsA(o[k], "ElementClickInterceptedException")
        THEN [ret |-> IF o[3] = "ok" THEN RetTrue ELSE RetFalse,
              tried |-> Ran(k, 1, 2) \cup {3},
              clicks |-> IF o[3] = "ok" THEN <<"script">> ELSE <<>>]
        ELSE [ret |-> RetFalse, tried |-> Ran(k, 1, 2), clicks |-> <<>>]

\* safe_input(element, value).  o[1]: element.clear(), o[2]:
\* element.send_keys(value).  text: the element's text afterwards, `old`
\* before: emptied by clear, then the value typed.
safe_input(o, old, value) ==
    LET k == FirstFault(o, 1, 2)
    IN  [ret |-> IF k = 0 THEN RetTrue ELSE RetFalse,
         tried |-> Ran(k, 1, 2),
         text |-> IF k = 0 THEN value ELSE IF k = 2 THEN <<>> ELSE old]

\* A js_input whose script assigns the value and dispatches no event.
js_input_NoEvent(o, old, value) ==
    [ret |-> IF o[1] = "ok" THEN RetTrue ELSE RetFalse,
     tried |-> {1},
     text |-> IF o[1] = "ok" THEN value ELSE old,
     events |-> <<>>]

\* js_input(element, value).  o[1]: execute_script("arguments[0].value =
\* arguments[1]; arguments[0].dispatchEvent(new Event('input'))").
\* text: the element's value afterwards; events: the events dispatched.
js_input(o, old, value) ==
    [ret |-> IF o[1] = "ok" THEN RetTrue ELSE RetFalse,
     tried |-> {1},
     text |-> IF o[1] = "ok" THEN value ELSE old,
     events |-> IF o[1] = "ok" THEN <<"input">> ELSE <<>>]

(***************************************************************************)
(* Texts are sequences of characters; lower() and `in` as Python has them. *)
(***************************************************************************)
LowerChar(c) == IF c = "A" THEN "a" ELSE IF c = "B" THEN "b" ELSE c

Lower(s) == [i \in 1..Len(s) |-> LowerChar(s[i])]

\* sub in s
Contains(sub, s) ==
    \E i \in 0..(Len(s) - Len(sub)) : SubSeq(s, i + 1, i + Len(sub)) = sub

\* Company names a job may carry, and the texts the site may show.
CompanyNames == {<<"a">>, <<"A", "b">>}

SiteTexts == {<<"a">>, <<"b">>, <<"a", "B">>, <<"B", "a">>}

\* The longest suggestion list the site shows.
MaxSuggestions == 2

\* presence_of_all_elements_located returns a non-empty list or times out.
SuggestionLists ==
    UNION {[1..n -> SiteTexts] : n \in 1..MaxSuggestions}

(***************************************************************************)
(* Stage 3: the company.                                                   *)
(***************************************************************************)

\* The first suggestion whose text contains the name, case respected.
FirstMatch_CaseSensitive(name, suggestions) ==
    LET hits == {i \in 1..Len(suggestions) : Contains(name, suggestions[i])}
    IN  IF hits = {} THEN 0 ELSE CHOOSE i \in hits : \A j \in hits : i <= j

\* Index of the first suggestion whose text contains the name, ignoring case;
\* 0 when none does (the loop of select_company).
FirstMatch(name, suggestions) ==
    LET hits == {i \in 1..Len(suggestions) : Contains(Lower(name), Lower(suggestions[i]))}
    IN  IF hits = {} THEN 0 ELSE CHOOSE i \in hits : \A j \in hits : i <= j

\* select_company(company_name).  o[1]: wait for the search box, o[2]: clear,
\* o[3]: send_keys, o[4]: wait for the suggestion list, o[5]: reading the
\* suggestions' texts, o[6]: click on the matching suggestion.  Any fault is
\* caught (TimeoutException, Exception) and gives False.
\* clicked: index of the suggestion clicked, 0 when none.
select_company(o, name, suggestions) ==
    LET m == FirstMatch(name, suggestions)
        n == IF m = 0 THEN 5 ELSE 6
        k == FirstFault(o, 1, n)
    IN  [ret |-> IF k = 0 /\ m # 0 THEN RetTrue ELSE RetFalse,
         tried |-> Ran(k, 1, n),
         clicked |-> IF k = 0 THEN m ELSE 0]

\* The entries the modal's company list may show.
ModalLists == {<<<<"a">>>>, <<<<"b">>, <<"a", "B">>>>}

\* Index of the first modal entry equal to the name, ignoring case; 0 when none.
ExactMatch(name, entries) ==
    LET hits == {i \in 1..Len(entries) : Lower(name) = Lower(entries[i])}
    IN  IF hits = {} THEN 0 ELSE CHOOSE i \in hits : \A j \in hits : i <= j

\* add_new_company returning True once 'Add Company' was clicked, without
\* waiting for the toast.
add_new_company_NoToast(o, name, displayed, entries) ==
    LET n == IF displayed THEN 12 ELSE 2
        k == FirstFault(o, 1, n)
        last == IF k = 0 THEN n ELSE k - 1
    IN  [ret |-> IF k = 0 /\ displayed THEN RetTrue ELSE RetFalse,
         tried |-> Ran(k, 1, n),
         modal |-> last >= 4,
         picked |-> IF last >= 10 THEN ExactMatch(name, entries) ELSE 0,
         added |-> last >= 12,
         toast |-> FALSE]

\* add_new_company(company_name).  o[1]: find the 'No matching companies'
\* message, o[2]: is_displayed() (with value `displayed`), o[3]: find the
\* add-new-company button, o[4]: click it, o[5]: wait for the modal, o[6]: wait
\* for the name input, o[7]: clear, o[8]: send_keys, o[9]: wait for the modal's
\* list, o[10]: reading the entries and clicking the exact match if any,
\* o[11]: wait for 'Add Company', o[12]: click it, o[13]: wait for the toast.
\* Every fault is caught (NoSuchElementException, Exception) and gives False.
\* modal: the modal sub-flow was started; picked: the entry clicked (0: none);
\* added: 'Add Company' was clicked; toast: the success toast was observed.
add_new_company(o, name, displayed, entries) ==
    LET n == IF displayed THEN 13 ELSE 2
        k == FirstFault(o, 1, n)
        last == IF k = 0 THEN n ELSE k - 1
    IN  [ret |-> IF k = 0 /\ displayed THEN RetTrue ELSE RetFalse,
         tried |-> Ran(k, 1, n),
         modal |-> last >= 4,
         picked |-> IF last >= 10 THEN ExactMatch(name, entries) ELSE 0,
         added |-> last >= 12,
         toast |-> last >= 13]

\* What the two sub-operations can do for a company name: every execution,
\* every list the site may show.
SelectCompanyResults ==
    [n \in CompanyNames |->
        UNION {{select_company(o, n, s) : o \in Executions(LAMBDA x : select_company(x, n, s), 6)} :
                    s \in SuggestionLists}]

AddNewCompanyResults ==
    [n \in CompanyNames |->
        UNION {{add_new_company(o, n, d, e) :
                    o \in Executions(LAMBDA x : add_new_company(x, n, d, e), 13)} :
                    d \in BOOLEAN, e \in ModalLists}]

\* A fill_company_data that creates the company again when the search after
\* the creation selects nothing.
fill_company_data_Recreate(r1, a, r2) ==
    IF r1.ret = RetTrue
    THEN [ret |-> RetTrue, calls |-> <<"select">>, rets |-> <<r1.ret>>, selected |-> TRUE]
    ELSE IF a.ret = RetTrue
    THEN [ret |-> RetTrue,
          calls |-> IF r2.ret = RetTrue THEN <<"select", "add", "select">>
                    ELSE <<"select", "add", "select", "add">>,
          rets |-> IF r2.ret = RetTrue THEN <<r1.ret, a.ret, r2.ret>>
                   ELSE <<r1.ret, a.ret, r2.ret, a.ret>>,
          selected |-> r2.ret = RetTrue]
    ELSE [ret |-> RetFalse, calls |-> <<"select", "add">>, rets |-> <<r1.ret, a.ret>>,
          selected |-> FALSE]

\* fill_company_data(company_name).  r1: the result of the first
\* select_company, a: of add_new_company (called only when r1 is False), r2: of
\* the second select_company (called only when a is True; its result is not
\* looked at).  calls: the sub-operations invoked, in order; rets: what each
\* returned; selected: a suggestion was clicked by the last select_company.
\* select_company and add_new_company catch every exception, so the handler
\* of fill_company_data is never entered.
fill_company_data(r1, a, r2) ==
    IF r1.ret = RetTrue
    THEN [ret |-> RetTrue, calls |-> <<"select">>, rets |-> <<r1.ret>>, selected |-> TRUE]
    ELSE IF a.ret = RetTrue
    THEN [ret |-> RetTrue, calls |-> <<"select", "add", "select">>,
          rets |-> <<r1.ret, a.ret, r2.ret>>, selected |-> r2.ret = RetTrue]
    ELSE [ret |-> RetFalse, calls |-> <<"select", "add">>, rets |-> <<r1.ret, a.ret>>,
          selected |-> FALSE]

(***************************************************************************)
(* Session set-up and stage 1: login.                                      *)
(***************************************************************************)

\* setup_driver().  o[1]: ChromeDriverManager().install() and
\* webdriver.Chrome(...).  A WebDriverException is logged and raised again;
\* any other exception is not caught.  created: self.driver was assigned a
\* new session.
setup_driver(o) ==
    [ret |-> IF o[1] = "ok" THEN RetNone ELSE RetRaise,
     tried |-> {1},
     created |-> o[1] = "ok"]

\* _find_login_button().  o[1]: wait for input[type=submit][value=Login];
\* TimeoutException -> o[2]: find_element button 'Login';
\* NoSuchElementException -> o[3]: find_element 'button';
\* NoSuchElementException -> None.  Every other fault leaves the method.
\* by: the selector that matched (0: none).
_find_login_button(o) ==
    IF o[1] = "ok" THEN [ret |-> "Element", tried |-> {1}, by |-> 1]
    ELSE IF ~IsA(o[1], "TimeoutException") THEN [ret |-> RetRaise, tried |-> {1}, by |-> 0]
    ELSE IF o[2] = "ok" THEN [ret |-> "Element", tried |-> {1, 2}, by |-> 2]
    ELSE IF ~IsA(o[2], "NoSuchElementException") THEN [ret |-> RetRaise, tried |-> {1, 2}, by |-> 0]
    ELSE IF o[3] = "ok" THEN [ret |-> "Element", tried |-> {1, 2, 3}, by |-> 3]
    ELSE IF ~IsA(o[3], "NoSuchElementException") THEN [ret |-> RetRaise, tried |-> {1, 2, 3}, by |-> 0]
    ELSE [ret |-> RetNone, tried |-> {1, 2, 3}, by |-> 0]

\* _check_for_login_errors().  o[1]: find_element div.error, o[2]: its text;
\* banner: the text, stripped, is not empty.  NoSuchElementException means no
\* error message; every other fault leaves the method.
_check_for_login_errors(o, banner) ==
    LET k == FirstFault(o, 1, 2)
    IN  [ret |-> IF k = 0 THEN (IF banner THEN RetTrue ELSE RetFalse)
                 ELSE IF IsA(o[k], "NoSuchElementException") THEN RetFalse
                 ELSE RetRaise,
         tried |-> Ran(k, 1, 2)]

\* The texts a field may hold.
Texts == {<<>>, <<"a">>, <<"a", "b">>}

SafeInputResults ==
    {safe_input(o, old, v) : o \in Executions(LAMBDA x : safe_input(x, <<>>, <<"a">>), 2),
                             old \in {<<>>}, v \in {<<"a">>}}

SafeClickResults == {safe_click(o) : o \in Executions(safe_click, 3)}

FindLoginButtonResults == {_find_login_button(o) : o \in Executions(_find_login_button, 3)}

CheckForLoginErrorsResults ==
    UNION {{_check_for_login_errors(o, b) :
                o \in Executions(LAMBDA x : _check_for_login_errors(x, b), 2)} : b \in BOOLEAN}

\* A login that goes on to the marker when an error banner was detected.
login_IgnoreBanner(o, e, p, b, c, x) ==
    LET k == FirstFault(o, 1, 3)
        fail(t, done) == [ret |-> RetFalse, tried |-> t,
                          typed |-> done, clicked |-> FALSE, banner |-> FALSE, marker |-> FALSE,
                          present |-> o[4] = "ok"]
        typed == e.ret = RetTrue /\ p.ret = RetTrue
    IN  IF k # 0 THEN fail(Ran(k, 1, 3), FALSE)
        ELSE IF b.ret # "Element" THEN fail(1..3, typed)
        ELSE IF x.ret = RetRaise
        THEN [ret |-> RetFalse, tried |-> 1..3, typed |-> typed,
              clicked |-> c.clicks # <<>>, banner |-> FALSE, marker |-> FALSE,
              present |-> o[4] = "ok"]
        ELSE [ret |-> IF o[4] = "ok" THEN RetTrue ELSE RetFalse, tried |-> 1..4,
              typed |-> typed, clicked |-> c.clicks # <<>>, banner |-> x.ret = RetTrue,
              marker |-> o[4] = "ok", present |-> o[4] = "ok"]

\* login giving up when a credential could not be entered or the click on
\* the login button failed.
login_Checked(o, e, p, b, c, x) ==
    LET k == FirstFault(o, 1, 3)
        fail(t, done) == [ret |-> RetFalse, tried |-> t,
                          typed |-> done, clicked |-> FALSE, banner |-> FALSE, marker |-> FALSE,
                          present |-> o[4] = "ok"]
        typed == e.ret = RetTrue /\ p.ret = RetTrue
        given == [found |-> k = 0, e |-> e.ret, p |-> p.ret, b |-> b.ret, c |-> c.ret,
                  x |-> x.ret]
    IN  (IF k # 0 THEN fail(Ran(k, 1, 3), FALSE)
        ELSE IF ~typed THEN fail(1..3, FALSE)
        ELSE IF b.ret # "Element" THEN fail(1..3, typed)
        ELSE IF c.ret # RetTrue THEN fail(1..3, typed)
        ELSE IF x.ret # RetFalse
        THEN [ret |-> RetFalse, tried |-> 1..3, typed |-> typed,
              clicked |-> c.clicks # <<>>, banner |-> x.ret = RetTrue, marker |-> FALSE,
              present |-> o[4] = "ok"]
        ELSE [ret |-> IF o[4] = "ok" THEN RetTrue ELSE RetFalse, tried |-> 1..4,
              typed |-> typed, clicked |-> c.clicks # <<>>, banner |-> FALSE,
              marker |-> o[4] = "ok", present |-> o[4] = "ok"]) @@ [given |-> given]

\* login().  o[1]: driver.get(url), o[2]: wait for the email field, o[3]:
\* wait for the password field, o[4]: wait for ui_container.  e, p: the
\* results of the two safe_input calls (not looked at), b: of
\* _find_login_button, c: of safe_click (not looked at), x: of
\* _check_for_login_errors.  Every fault is caught and gives False.
\* typed: credentials entered; clicked: a click registered on the login
\* button; banner: an error banner was detected; marker: ui_container seen;
\* present: ui_container is on the page (a wait for it would find it).
\* given: found: the page loaded and both fields were found; e, p, b, c, x:
\* what the five sub-calls give (when they are called).
login(o, e, p, b, c, x) ==
    LET k == FirstFault(o, 1, 3)
        fail(t, done) == [ret |-> RetFalse, tried |-> t,
                          typed |-> done, clicked |-> FALSE, banner |-> FALSE, marker |-> FALSE,
                          present |-> o[4] = "ok"]
        typed == e.ret = RetTrue /\ p.ret = RetTrue
        given == [found |-> k = 0, e |-> e.ret, p |-> p.ret, b |-> b.ret, c |-> c.ret,
                  x |-> x.ret]
    IN  (IF k # 0 THEN fail(Ran(k, 1, 3), FALSE)
        ELSE IF b.ret # "Element" THEN fail(1..3, typed)
        ELSE IF x.ret # RetFalse
        THEN [ret |-> RetFalse, tried |-> 1..3, typed |-> typed,
              clicked |-> c.clicks # <<>>, banner |-> x.ret = RetTrue, marker |-> FALSE,
              present |-> o[4] = "ok"]
        ELSE [ret |-> IF o[4] = "ok" THEN RetTrue ELSE RetFalse, tried |-> 1..4,
              typed |-> typed, clicked |-> c.clicks # <<>>, banner |-> FALSE,
              marker |-> o[4] = "ok", present |-> o[4] = "ok"]) @@ [given |-> given]

LoginResults ==
    UNION {{login(o, e, p, b, c, x) : o \in Executions(LAMBDA y : login(y, e, p, b, c, x), 4)} :
                e \in SafeInputResults, p \in SafeInputResults, b \in FindLoginButtonResults,
                c \in SafeClickResults, x \in CheckForLoginErrorsResults}


(***************************************************************************)
(* Stages 2 and 4 to 11: one try body each, every fault caught.            *)
(***************************************************************************)

\* select_placement_option().  o[1]: wait for 'Add Job Profile', o[2]:
\* scrollIntoView, o[3]: wait again, o[4]: click, o[5]: wait for the option,
\* o[6]: click it.
select_placement_option(o) ==
    LET k == FirstFault(o, 1, 6)
    IN  [ret |-> IF k = 0 THEN RetTrue ELSE RetFalse, tried |-> Ran(k, 1, 6)]

\* fill_job_profile_title(job_title).  o[1]: wait for #title, o[2]: clear,
\* o[3]: send_keys.  Every fault is caught (TimeoutException, Exception),
\* logged, and gives False.  absent: the wait for the control timed out.
fill_job_profile_title(o, job_title) ==
    LET k == FirstFault(o, 1, 3)
    IN  [ret |-> IF k = 0 THEN RetTrue ELSE RetFalse, tried |-> Ran(k, 1, 3),
         text |-> IF k = 0 THEN job_title ELSE <<>>,
         absent |-> IsA(o[1], "TimeoutException")]

\* The option lists the posting-source dropdown may show.
SourceOptionLists == {<<"Campus Placement">>, <<"Off Campus", "Campus Placement">>}

\* fill_job_profile_source().  o[1]: wait for the dropdown, o[2]:
\* scrollIntoView, o[3]: click, o[4]: wait for the options, o[5]: scroll to
\* the first option, o[6]: click it.  The loop returns in its first
\* iteration.  chosen: the option clicked ("" when none).
fill_job_profile_source(o, options) ==
    LET k == FirstFault(o, 1, 6)
    IN  [ret |-> IF k = 0 THEN RetTrue ELSE RetFalse, tried |-> Ran(k, 1, 6),
         chosen |-> IF k = 0 THEN options[1] ELSE ""]

\* fill_job_location(location).  o[1]: wait for #location, o[2]: clear,
\* o[3]: send_keys.
fill_job_location(o, location) ==
    LET k == FirstFault(o, 1, 3)
    IN  [ret |-> IF k = 0 THEN RetTrue ELSE RetFalse, tried |-> Ran(k, 1, 3),
         text |-> IF k = 0 THEN location ELSE <<>>]

\* fill_position_type().  o[1]: wait for the dropdown, o[2]: scrollIntoView,
\* o[3]: find the toggle, o[4]: click it, o[5]: wait for 'Full Time', o[6]:
\* click it.
fill_position_type(o) ==
    LET k == FirstFault(o, 1, 6)
    IN  [ret |-> IF k = 0 THEN RetTrue ELSE RetFalse, tried |-> Ran(k, 1, 6)]

\* fill_job_function(item).  o[1]: wait for the dropdown, o[2]: click, o[3]:
\* find its input, o[4]: clear, o[5]: send_keys, o[6]: wait for the option
\* equal to item, o[7]: click it.
fill_job_function(o, item) ==
    LET k == FirstFault(o, 1, 7)
    IN  [ret |-> IF k = 0 THEN RetTrue ELSE RetFalse, tried |-> Ran(k, 1, 7),
         chosen |-> IF k = 0 THEN item ELSE ""]

\* fill_category().  o[1]: wait for the dropdown, o[2]: click, o[3]: wait
\* for 'Level 1 - Open to all students', o[4]: click it.
fill_category(o) ==
    LET k == FirstFault(o, 1, 4)
    IN  [ret |-> IF k = 0 THEN RetTrue ELSE RetFalse, tried |-> Ran(k, 1, 4)]

\* What js_input can do to a field holding old when asked to write v.
JsInputResults(old, v) == {js_input(o, old, v) : o \in Executions(LAMBDA x : js_input(x, old, v), 1)}

\* What a salary field holds before the stage writes it: an empty input.
FieldDefault == <<>>

\* The text an input element holds after the script assigns it the integer n
\* (n >= 0): its decimal digits.
Digits == <<"0", "1", "2", "3", "4", "5", "6", "7", "8", "9">>

RECURSIVE Decimal(_)
Decimal(n) ==
    IF n < 10 THEN <<Digits[n + 1]>>
    ELSE Append(Decimal(n \div 10), Digits[(n % 10) + 1])

\* add_ctc_details writing the minimum as soon as #ctcMin is found, before
\* #ctcMax is looked for.
add_ctc_details_WriteEarly(o, a, b) ==
    LET k1 == FirstFault(o, 1, 3)
        fallback == k1 = 3 /\ IsA(o[3], "ElementClickInterceptedException")
        k2 == IF k1 = 0 THEN FirstFault(o, 5, 7)
              ELSE IF fallback THEN FirstFault(o, 4, 7)
              ELSE k1
        t == IF k1 = 0 THEN (1..3) \cup Ran(k2, 5, 7)
             ELSE IF fallback THEN (1..3) \cup Ran(k2, 4, 7)
             ELSE Ran(k1, 1, 3)
        range == (k1 = 0) \/ (fallback /\ o[4] = "ok")
        early == k2 = 0 \/ k2 = 7
    IN  [ret |-> IF k2 = 0 THEN RetTrue ELSE RetFalse,
         tried |-> t,
         range |-> range,
         min |-> IF early THEN a.text ELSE FieldDefault,
         max |-> IF k2 = 0 THEN b.text ELSE FieldDefault,
         wrote |-> IF k2 = 0 THEN <<a.ret, b.ret>> ELSE <<>>,
         events |-> (IF range THEN <<"range">> ELSE <<>>)
                    \o (IF early /\ a.ret = RetTrue THEN <<"ctcMin">> ELSE <<>>)
                    \o (IF k2 = 0 /\ b.ret = RetTrue THEN <<"ctcMax">> ELSE <<>>),
         inputs |-> (IF early THEN a.events ELSE <<>>) \o (IF k2 = 0 THEN b.events ELSE <<>>),
         missing |-> k2 \in {1, 6, 7}]

\* add_ctc_details(min_salary, max_salary).  o[1]: wait for 'Specify Range',
\* o[2]: scrollIntoView, o[3]: click, o[4]: script click (only after
\* ElementClickInterceptedException at o[3]), o[5]: window.scrollTo, o[6]:
\* find #ctcMin, o[7]: find #ctcMax.  a, b: the results of js_input on the
\* two fields (not looked at).  Every fault of o is caught and gives False.
\* range: the widget was switched to range mode; min, max: the fields' values;
\* events: the switch and the writes that took place, in order; inputs: the
\* change notifications the writes dispatched; missing: the range control or
\* one of the two fields was not located.
add_ctc_details(o, a, b) ==
    LET k1 == FirstFault(o, 1, 3)
        fallback == k1 = 3 /\ IsA(o[3], "ElementClickInterceptedException")
        k2 == IF k1 = 0 THEN FirstFault(o, 5, 7)
              ELSE IF fallback THEN FirstFault(o, 4, 7)
              ELSE k1
        t == IF k1 = 0 THEN (1..3) \cup Ran(k2, 5, 7)
             ELSE IF fallback THEN (1..3) \cup Ran(k2, 4, 7)
             ELSE Ran(k1, 1, 3)
        range == (k1 = 0) \/ (fallback /\ o[4] = "ok")
    IN  [ret |-> IF k2 = 0 THEN RetTrue ELSE RetFalse,
         tried |-> t,
         range |-> range,
         min |-> IF k2 = 0 THEN a.text ELSE FieldDefault,
         max |-> IF k2 = 0 THEN b.text ELSE FieldDefault,
         wrote |-> IF k2 = 0 THEN <<a.ret, b.ret>> ELSE <<>>,
         events |-> (IF range THEN <<"range">> ELSE <<>>)
                    \o (IF k2 = 0 /\ a.ret = RetTrue THEN <<"ctcMin">> ELSE <<>>)
                    \o (IF k2 = 0 /\ b.ret = RetTrue THEN <<"ctcMax">> ELSE <<>>),
         inputs |-> IF k2 = 0 THEN a.events \o b.events ELSE <<>>,
         missing |-> k2 \in {1, 6, 7}]

\* click_is_equity_checkbox().  o[1]: wait for #isEquity, o[2]:
\* scrollIntoView, o[3]: script click.
click_is_equity_checkbox(o) ==
    LET k == FirstFault(o, 1, 3)
    IN  [ret |-> IF k = 0 THEN RetTrue ELSE RetFalse, tried |-> Ran(k, 1, 3)]


(***************************************************************************)
(* Stages 12 and 13: the rich-text fields.  The editor lives in an iframe: *)
(* the interaction context is "default" (the page) or "frame" (an editor). *)
(***************************************************************************)

\* fill_tinymce_field_by_label(label_text, content).  o[1]: wait for the
\* label, o[2]: find the iframe after it, o[3]: switch_to.frame, o[4]: wait
\* for the body, o[5]: body.clear(), o[6]: body.send_keys(content), o[7]:
\* switch_to.default_content().  TimeoutException and NoSuchElementException
\* are caught: o[8]: switch_to.default_content() with its own faults
\* swallowed, then False.  No other exception is caught.
\* ctx: the interaction context, before and after; a switch that raises
\* leaves it as it was.  text: the editor's content afterwards.
fill_tinymce_field_by_label(o, ctx, content) ==
    LET k == FirstFault(o, 1, 7)
        in == IF k = 0 \/ k > 3 THEN "frame" ELSE ctx
        caught == k # 0 /\ (IsA(o[k], "TimeoutException") \/ IsA(o[k], "NoSuchElementException"))
    IN  [ret |-> IF k = 0 THEN RetTrue ELSE IF caught THEN RetFalse ELSE RetRaise,
         tried |-> IF caught THEN Ran(k, 1, 7) \cup {8} ELSE Ran(k, 1, 7),
         ctx |-> IF k = 0 THEN "default"
                 ELSE IF caught /\ o[8] = "ok" THEN "default"
                 ELSE in,
         text |-> IF k = 0 \/ k = 7 THEN content ELSE <<>>]

(***************************************************************************)
(* Stage 14: create the profile and confirm.                               *)
(***************************************************************************)

\* click_create_and_confirm().  o[1]: wait for 'Create New Job Profile',
\* o[2]: scrollIntoView, o[3]: click; on ElementClickInterceptedException
\* o[4]: script click; on any other exception o[5]: closing visible overlays
\* (its faults swallowed) and o[6]: ActionChains click.  o[7]: wait for the
\* modal's OK button, o[8]: scrollIntoView, o[9]: click; on
\* ElementClickInterceptedException o[10]: script click.  o[11]: wait for the
\* success toast, a TimeoutException of which is swallowed.
\* TimeoutException, NoSuchElementException and WebDriverException are
\* caught and give False; no other exception is caught.
\* created: a click registered on the create button; ok: on the OK button;
\* toast: the success toast was observed; dialog: what the wait for the
\* confirmation dialog gave ("absent": it timed out); indicator: what the
\* wait for the success toast gave ("absent": it timed out).
click_create_and_confirm(o) ==
    LET k1 == FirstFault(o, 1, 3)
        \* the fault that leaves the create-click part, "ok" when none does
        f1 == IF k1 = 0 THEN "ok"
              ELSE IF k1 < 3 THEN o[k1]
              ELSE IF IsA(o[3], "ElementClickInterceptedException") THEN o[4]
              ELSE o[6]
        t1 == IF k1 = 0 THEN 1..3
              ELSE IF k1 < 3 THEN 1..k1
              ELSE IF IsA(o[3], "ElementClickInterceptedException") THEN {1, 2, 3, 4}
              ELSE {1, 2, 3, 5, 6}
        k2 == FirstFault(o, 7, 9)
        f2 == IF k2 = 0 THEN "ok"
              ELSE IF k2 < 9 THEN o[k2]
              ELSE IF IsA(o[9], "ElementClickInterceptedException") THEN o[10]
              ELSE o[9]
        t2 == IF k2 = 0 THEN 7..9
              ELSE IF k2 < 9 THEN 7..k2
              ELSE IF IsA(o[9], "ElementClickInterceptedException") THEN {7, 8, 9, 10}
              ELSE {7, 8, 9}
        f3 == IF o[11] = "ok" \/ IsA(o[11], "TimeoutException") THEN "ok" ELSE o[11]
        f == IF f1 # "ok" THEN f1 ELSE IF f2 # "ok" THEN f2 ELSE f3
    IN  [ret |-> IF f = "ok" THEN RetTrue
                 ELSE IF IsA(f, "WebDriverException") THEN RetFalse
                 ELSE RetRaise,
         tried |-> IF f1 # "ok" THEN t1 ELSE IF f2 # "ok" THEN t1 \cup t2 ELSE t1 \cup t2 \cup {11},
         created |-> f1 = "ok",
         ok |-> f1 = "ok" /\ f2 = "ok",
         toast |-> f1 = "ok" /\ f2 = "ok" /\ o[11] = "ok",
         dialog |-> IF f1 # "ok" THEN "unreached"
                    ELSE IF o[7] = "ok" THEN "shown"
                    ELSE IF IsA(o[7], "TimeoutException") THEN "absent"
                    ELSE "fault",
         indicator |-> IF f1 # "ok" \/ f2 # "ok" THEN "unreached"
                       ELSE IF o[11] = "ok" THEN "found"
                       ELSE IF IsA(o[11], "TimeoutException") THEN "absent"
                       ELSE "fault"]


(***************************************************************************)
(* Stages 15 to 17 share two idioms.                                       *)
(***************************************************************************)

\* A lookup that evaluates every selector and keeps the last one that matched.
find_first_Last(o, n) ==
    LET hits == {i \in 1..n : o[i] = "ok"}
        by == IF hits = {} THEN 0 ELSE CHOOSE i \in hits : \A j \in hits : i >= j
    IN  [by |-> by, tried |-> 1..n]

\* The ordered-fallback lookup: `for selector in selectors: try: element =
\* wait.until(...); if element: break; except: log`.  o[i]: the wait for the
\* i-th selector.  by: the selector that matched, 0 when none did.
find_first(o, n) ==
    LET hits == {i \in 1..n : o[i] = "ok"}
        by == IF hits = {} THEN 0 ELSE CHOOSE i \in hits : \A j \in hits : i <= j
    IN  [by |-> by, tried |-> IF by = 0 THEN 1..n ELSE 1..by]

\* The click chain: o[1]: element.click(); on any exception o[2]: script
\* click; on any exception o[3]: the last resort (ActionChains click, or the
\* forced check of a checkbox), whose fault leaves the chain.
\* via: the method that clicked, 0 when none did.
click_chain(o, n) ==
    LET hits == {i \in 1..n : o[i] = "ok"}
        via == IF hits = {} THEN 0 ELSE CHOOSE i \in hits : \A j \in hits : i <= j
    IN  [ret |-> IF via = 0 THEN RetRaise ELSE RetNone,
         via |-> via, tried |-> IF via = 0 THEN 1..n ELSE 1..via]

\* The click chain was not entered.
NoChain == [ret |-> RetNone, via |-> 0, tried |-> {}]

FindFirstResults ==
    [n \in 3..4 |-> {find_first(o, n) : o \in Executions(LAMBDA x : find_first(x, n), n)}]

ClickChainResults ==
    [n \in 1..3 |-> {click_chain(o, n) : o \in Executions(LAMBDA x : click_chain(x, n), n)}]

\* An error handler of a block inside a method: `self.driver.save_screenshot
\* (...); return False` (o[s]).  The block lies in the method's outer try, so
\* a fault of the screenshot reaches the outer handler, which takes its own
\* screenshot (o[h]) and returns False; a fault there leaves the method.
handled(o, s, h) ==
    IF o[s] = "ok" THEN [go |-> "return", ret |-> RetFalse, tried |-> {s}, shots |-> 1]
    ELSE IF o[h] = "ok" THEN [go |-> "return", ret |-> RetFalse, tried |-> {s, h}, shots |-> 1]
    ELSE [go |-> "return", ret |-> RetRaise, tried |-> {s, h}, shots |-> 0]

\* The method's outer handler alone (`except TimeoutException` and `except
\* Exception` differ in the file name only): screenshot o[h], then False.
outer_handler(o, h) ==
    IF o[h] = "ok" THEN [go |-> "return", ret |-> RetFalse, tried |-> {h}, shots |-> 1]
    ELSE [go |-> "return", ret |-> RetRaise, tried |-> {h}, shots |-> 0]

\* The block completed: the method goes on.
proceed(t) == [go |-> "next", ret |-> RetNone, tried |-> t, shots |-> 0]

\* r, with the call sites t executed before it.
After(t, r) == [r EXCEPT !.tried = t \cup @]


(***************************************************************************)
(* Stage 15: select_applicable_courses(), block by block.  Each block is a *)
(* try of its own inside the method's outer try.                           *)
(***************************************************************************)

\* chain (in the three link blocks below): what the click chain on the link
\* did.
\* Lines 938-989: the 'Select applicable courses' link.  l: the lookup over
\* four selectors (none matching raises), o[1]: scrollIntoView, c: the click
\* chain, o[2]: the block's screenshot, o[3]: the outer handler's screenshot.
select_applicable_courses_link(l, o, c) ==
    IF l.by = 0 THEN handled(o, 2, 3) @@ [chain |-> NoChain]
    ELSE IF o[1] # "ok" THEN After({1}, handled(o, 2, 3)) @@ [chain |-> NoChain]
    ELSE IF c.ret = RetRaise THEN After({1}, handled(o, 2, 3)) @@ [chain |-> c]
    ELSE proceed({1}) @@ [chain |-> c]

\* Lines 991-1064: the 'Add Eligible Courses' button.  l: the lookup over
\* four selectors; when none matches, o[1]: find_elements of all buttons and
\* `found`: one of them looks like an add button; when still none, o[2]: the
\* 'missing' screenshot, then an exception.  o[3]: scrollIntoView, c: the
\* click chain, o[4]: the block's screenshot, o[5]: the outer handler's.
select_applicable_courses_add_button(l, found, o, c) ==
    LET search == l.by = 0
        t0 == IF search THEN {1} ELSE {}
    IN  IF search /\ o[1] # "ok" THEN After(t0, handled(o, 4, 5))
        ELSE IF search /\ ~found
        THEN LET r == After(t0 \cup {2}, handled(o, 4, 5))
             IN  IF o[2] = "ok" THEN [r EXCEPT !.shots = @ + 1] ELSE r
        ELSE IF o[3] # "ok" THEN After(t0 \cup {3}, handled(o, 4, 5))
        ELSE IF c.ret = RetRaise THEN After(t0 \cup {3}, handled(o, 4, 5))
        ELSE proceed(t0 \cup {3})

\* Lines 1066-1076: the course selection popup.  o[1]: the wait, o[2]: the
\* block's screenshot, o[3]: the outer handler's.
select_applicable_courses_popup(o) ==
    IF o[1] # "ok" THEN After({1}, handled(o, 2, 3)) ELSE proceed({1})

\* Lines 1079-1109: the checkboxes.  l: the lookup over four locators.  With
\* none found the method returns False.  by: the locator that found them.
select_applicable_courses_checkboxes(l) ==
    IF l.by = 0
    THEN [go |-> "return", ret |-> RetFalse, tried |-> {}, shots |-> 0, by |-> 0]
    ELSE proceed({}) @@ [by |-> l.by]

\* The first checkbox, with a failure of the whole click chain swallowed.
select_applicable_courses_check_Swallow(o, c) ==
    IF o[1] # "ok" THEN After({1}, handled(o, 2, 3)) @@ [via |-> 0]
    ELSE proceed({1}) @@ [via |-> c.via]

\* Lines 1111-1135: the first checkbox.  o[1]: scrollIntoView, c: the click
\* chain ending in the forced check, o[2]: the block's screenshot, o[3]: the
\* outer handler's.  via: the method that clicked the checkbox, 0 when none.
select_applicable_courses_check(o, c) ==
    IF o[1] # "ok" THEN After({1}, handled(o, 2, 3)) @@ [via |-> 0]
    ELSE IF c.ret = RetRaise THEN After({1}, handled(o, 2, 3)) @@ [via |-> 0]
    ELSE proceed({1}) @@ [via |-> c.via]

\* Lines 1137-1177: the Save button.  l: the lookup over four selectors
\* (none matching raises), o[1]: scrollIntoView, c: click then script click,
\* o[2]: the block's screenshot, o[3]: the outer handler's.  via: the method
\* that clicked Save, 0 when none.
select_applicable_courses_save(l, o, c) ==
    IF l.by = 0 THEN handled(o, 2, 3) @@ [via |-> 0]
    ELSE IF o[1] # "ok" THEN After({1}, handled(o, 2, 3)) @@ [via |-> 0]
    ELSE IF c.ret = RetRaise THEN After({1}, handled(o, 2, 3)) @@ [via |-> 0]
    ELSE proceed({1}) @@ [via |-> c.via]

\* The success indicators, with the stage failing when none is found.
select_applicable_courses_verify_Strict(o, seen) ==
    [go |-> "return", ret |-> IF o[1] = "ok" /\ seen THEN RetTrue ELSE RetFalse,
     tried |-> {1}, shots |-> 0,
     indicator |-> IF o[1] = "ok" /\ seen THEN "found" ELSE "absent"]

\* Lines 1179-1192: the success indicators.  o[1]: find_elements, its faults
\* swallowed; seen: it returned some element.  The method returns True
\* whatever was found.
select_applicable_courses_verify(o, seen) ==
    [go |-> "return", ret |-> RetTrue, tried |-> {1}, shots |-> 0,
     indicator |-> IF o[1] = "ok" /\ seen THEN "found" ELSE "absent"]


(***************************************************************************)
(* Stage 16: set_eligibility_criteria(), block by block.  Only the         *)
(* confirmation has a try of its own; the rest lies in the outer try.      *)
(***************************************************************************)

\* Lines 1217-1262: the 'Set eligibility criteria' link.  l: the lookup over
\* four patterns (none matching raises), o[1]: scrollIntoView, c: the click
\* chain, o[2]: the outer handler's screenshot.
set_eligibility_criteria_link(l, o, c) ==
    IF l.by = 0 THEN outer_handler(o, 2) @@ [chain |-> NoChain]
    ELSE IF o[1] # "ok" THEN After({1}, outer_handler(o, 2)) @@ [chain |-> NoChain]
    ELSE IF c.ret = RetRaise THEN After({1}, outer_handler(o, 2)) @@ [chain |-> c]
    ELSE proceed({1}) @@ [chain |-> c]

\* Lines 1264-1327: the 'Allow all students' button.  l: the lookup over four
\* selectors; when none matches, o[1]: find_elements of all buttons (its
\* faults swallowed) and `found`: one of them looks like the button; when
\* still none, o[2]: the 'missing' screenshot, then an exception.  o[3]:
\* scrollIntoView, c: the click chain, o[4]: the outer handler's screenshot.
set_eligibility_criteria_allow_all(l, found, o, c) ==
    LET search == l.by = 0
        t0 == IF search THEN {1} ELSE {}
    IN  IF search /\ ~(o[1] = "ok" /\ found)
        THEN LET r == After(t0 \cup {2}, outer_handler(o, 4))
             IN  IF o[2] = "ok" THEN [r EXCEPT !.shots = @ + 1] ELSE r
        ELSE IF o[3] # "ok" THEN After(t0 \cup {3}, outer_handler(o, 4))
        ELSE IF c.ret = RetRaise THEN After(t0 \cup {3}, outer_handler(o, 4))
        ELSE proceed(t0 \cup {3})

\* Lines 1329-1350: the confirmation popup.  o[1]: wait for 'Yes', c: click
\* then script click, o[2]: the block's screenshot, o[3]: the outer
\* handler's.
set_eligibility_criteria_confirm(o, c) ==
    IF o[1] # "ok" THEN After({1}, handled(o, 2, 3))
    ELSE IF c.ret = RetRaise THEN After({1}, handled(o, 2, 3))
    ELSE proceed({1})

\* Lines 1352-1374: the success indicators (o[1]: find_elements, seen: it
\* returned some element) and the 'done' mark (o[2]), their faults
\* swallowed; the method returns True whatever is found.
set_eligibility_criteria_verify(o, seen) ==
    [go |-> "return", ret |-> RetTrue, tried |-> {1, 2}, shots |-> 0,
     indicator |-> IF o[1] = "ok" /\ seen THEN "found" ELSE "absent"]

(***************************************************************************)
(* Stage 17: setup_hiring_workflow(), block by block.                      *)
(***************************************************************************)

\* The interview stages added, in order (line 1451).
HiringStages == <<"Resume shortlisting", "Technical interview", "HR interview">>

\* Lines 1399-1444: the 'Setup hiring workflow' link.  l: the lookup over
\* four patterns (none matching raises), o[1]: scrollIntoView, c: the click
\* chain, o[2]: the outer handler's screenshot.
setup_hiring_workflow_link(l, o, c) ==
    IF l.by = 0 THEN outer_handler(o, 2) @@ [chain |-> NoChain]
    ELSE IF o[1] # "ok" THEN After({1}, outer_handler(o, 2)) @@ [chain |-> NoChain]
    ELSE IF c.ret = RetRaise THEN After({1}, outer_handler(o, 2)) @@ [chain |-> c]
    ELSE proceed({1}) @@ [chain |-> c]

\* Lines 1454-1485: one iteration of the loop over HiringStages.  o[1]: wait
\* for the stage's container, o[2]: find its Add button, o[3]:
\* scrollIntoView, c: click then script click.  Any fault is caught: o[4]:
\* the iteration's screenshot, and the loop goes on; a fault of that
\* screenshot reaches the outer handler (o[5]).  added: the Add button was
\* clicked.
setup_hiring_workflow_add_stage(o, c) ==
    LET k == FirstFault(o, 1, 3)
        failed == k # 0 \/ c.ret = RetRaise
        t == Ran(k, 1, 3)
    IN  IF ~failed THEN [go |-> "next", ret |-> RetNone, tried |-> t, shots |-> 0, added |-> TRUE]
        ELSE IF o[4] = "ok"
        THEN [go |-> "next", ret |-> RetNone, tried |-> t \cup {4}, shots |-> 1, added |-> FALSE]
        ELSE After(t \cup {4}, outer_handler(o, 5)) @@ [added |-> FALSE]

\* Lines 1491-1547: the 'Submit Now' button.  l: the lookup over three
\* selectors; when none matches, o[1]: find_elements of all buttons (its
\* faults swallowed) and `found`: one of them reads Submit; when still none,
\* o[2]: the 'missing' screenshot, then False.  o[3]: scrollIntoView, c: the
\* click chain, o[4]: the outer handler's screenshot.  press: the click
\* chain was entered.
setup_hiring_workflow_submit(l, found, o, c) ==
    LET search == l.by = 0
        t0 == IF search THEN {1} ELSE {}
    IN  IF search /\ ~(o[1] = "ok" /\ found)
        THEN IF o[2] = "ok"
             THEN [go |-> "return", ret |-> RetFalse, tried |-> t0 \cup {2}, shots |-> 1,
                   press |-> FALSE]
             ELSE After(t0 \cup {2}, outer_handler(o, 4)) @@ [press |-> FALSE]
        ELSE IF o[3] # "ok" THEN After(t0 \cup {3}, outer_handler(o, 4)) @@ [press |-> FALSE]
        ELSE IF c.ret = RetRaise THEN After(t0 \cup {3}, outer_handler(o, 4)) @@ [press |-> TRUE]
        ELSE proceed(t0 \cup {3}) @@ [press |-> TRUE]

\* Lines 1549-1567: the confirmation dialog.  o[1]: wait for 'Yes', o[2]:
\* click it, o[3]: the block's screenshot, o[4]: the outer handler's.
setup_hiring_workflow_confirm(o) ==
    LET k == FirstFault(o, 1, 2)
    IN  IF k # 0 THEN After(Ran(k, 1, 2), handled(o, 3, 4)) ELSE proceed({1, 2})

\* Lines 1569-1585: the success indicators (o[1]: find_elements, its faults
\* swallowed; seen: it returned some element): True when some is found
\* (line 1579), and True when none is (line 1585).
setup_hiring_workflow_verify(o, seen) ==
    [go |-> "return", ret |-> IF o[1] = "ok" /\ seen THEN RetTrue ELSE RetTrue,
     tried |-> {1}, shots |-> 0,
     indicator |-> IF o[1] = "ok" /\ seen THEN "found" ELSE "absent"]


(***************************************************************************)
(* The orchestrator: SupersetAutomator.run and teardown.                   *)
(***************************************************************************)

\* The stage operations in the order run calls them.
StageNames ==
    <<"login", "select_placement_option", "fill_company_data", "fill_job_profile_title",
      "fill_job_profile_source", "fill_job_location", "fill_position_type",
      "fill_job_function", "fill_category", "add_ctc_details", "click_is_equity_checkbox",
      "fill_tinymce_field_by_label:salary_breakup",
      "fill_tinymce_field_by_label:job_description", "click_create_and_confirm",
      "select_applicable_courses", "set_eligibility_criteria", "setup_hiring_workflow">>

NumStages == Len(StageNames)

\* A run that goes on to the next stage whatever the stage returned.
run_after_Continue(i, ret) ==
    IF ret = RetRaise
    THEN [pc |-> "teardown", stage |-> i, success |-> FALSE, outer |-> TRUE]
    ELSE IF i < NumStages
    THEN [pc |-> "stage", stage |-> i + 1, success |-> FALSE, outer |-> FALSE]
    ELSE [pc |-> "teardown", stage |-> i, success |-> TRUE, outer |-> FALSE]

\* run, between two stage calls: what follows stage i having returned ret (or
\* raised).  `if not x_success: return False` leaves through the finally
\* clause; an exception reaches `except Exception`, which sets success to
\* False; after the last stage success is set to True.
run_after(i, ret) ==
    IF ret = RetRaise
    THEN [pc |-> "teardown", stage |-> i, success |-> FALSE, outer |-> TRUE]
    ELSE IF ret # RetTrue
    THEN [pc |-> "teardown", stage |-> i, success |-> FALSE, outer |-> FALSE]
    ELSE IF i < NumStages
    THEN [pc |-> "stage", stage |-> i + 1, success |-> FALSE, outer |-> FALSE]
    ELSE [pc |-> "teardown", stage |-> i, success |-> TRUE, outer |-> FALSE]

\* A teardown that quits twice.
teardown_Twice(d, o) ==
    [ret |-> IF d # 0 /\ o[1] # "ok" THEN RetRaise ELSE RetNone,
     tried |-> IF d # 0 THEN {1} ELSE {},
     quits |-> IF d # 0 THEN 2 ELSE 0]

\* A teardown that never quits.
teardown_Never(d, o) == [ret |-> RetNone, tried |-> {}, quits |-> 0]

\* teardown().  d: self.driver (0: None), o[1]: self.driver.quit(), called
\* when d is set; a fault of it leaves teardown.  quits: calls of quit made.
teardown(d, o) ==
    [ret |-> IF d # 0 /\ o[1] # "ok" THEN RetRaise ELSE RetNone,
     tried |-> IF d # 0 THEN {1} ELSE {},
     quits |-> IF d # 0 THEN 1 ELSE 0]

\* What run gives its caller: teardown runs in the finally clause, so an
\* exception leaving it replaces the value being returned.
run_return(success, t) ==
    IF t.ret = RetRaise THEN RetRaise ELSE IF success THEN RetTrue ELSE RetFalse


(***************************************************************************)
(* The application (main.py): the session's job_data, the 'Update Details' *)
(* and the 'Confirm & Proceed' handlers.  Texts are sequences of           *)
(* characters; beside the ASCII characters two stand for the classes       *)
(* str.isdigit and int tell apart: "U+0663" (ARABIC-INDIC DIGIT THREE, a   *)
(* decimal digit) and "U+00B2" (SUPERSCRIPT TWO, a digit, not decimal).    *)
(***************************************************************************)

\* The value of a decimal character, -1 for any other character.
DecimalValue(c) ==
    IF \E i \in 1..10 : Digits[i] = c THEN (CHOOSE i \in 1..10 : Digits[i] = c) - 1
    ELSE IF c = "U+0663" THEN 3
    ELSE -1

\* str.isdigit(): at least one character, and every character a digit.
isdigit(s) ==
    /\ Len(s) > 0
    /\ \A i \in 1..Len(s) : DecimalValue(s[i]) >= 0 \/ s[i] = "U+00B2"

RECURSIVE DecimalNumber(_)
\* The number a text of decimal characters writes.
DecimalNumber(s) ==
    IF Len(s) = 0 THEN 0
    ELSE 10 * DecimalNumber(SubSeq(s, 1, Len(s) - 1)) + DecimalValue(s[Len(s)])

\* int(s) of a text isdigit accepts: ValueError unless every character is a
\* decimal digit.
int(s) ==
    IF \A i \in 1..Len(s) : DecimalValue(s[i]) >= 0
    THEN [raise |-> FALSE, n |-> DecimalNumber(s)]
    ELSE [raise |-> TRUE, n |-> 0]

\* `int(x) if x.isdigit() else 0` (lines 142-143).
coerce(s) == IF isdigit(s) THEN int(s) ELSE [raise |-> FALSE, n |-> 0]

\* The values a salary entry of job_data can hold: an int, a str or None.
IntVal(n) == [kind |-> "int", n |-> n, s |-> <<>>]
StrVal(s) == [kind |-> "str", n |-> 0, s |-> s]
NoneVal == [kind |-> "None", n |-> 0, s |-> <<>>]

\* str(v) (lines 105-108).
str(v) ==
    IF v.kind = "int" THEN (IF v.n < 0 THEN <<"-">> \o Decimal(0 - v.n) ELSE Decimal(v.n))
    ELSE IF v.kind = "str" THEN v.s
    ELSE <<"N", "o", "n", "e">>

\* The keys the 'Confirm & Proceed' handler reads with [] (lines 159-167).
ConfirmKeys ==
    {"company_name", "job_title", "location", "min_salary", "max_salary",
     "job_description", "job_function", "salary_breakup", "is_ai_generated"}

\* st.session_state.job_data: None (line 60), or a dict with the keys `has`.
NoData ==
    [none |-> TRUE, has |-> {}, company_name |-> <<>>, job_title |-> <<>>,
     location |-> <<>>, min_salary |-> NoneVal, max_salary |-> NoneVal]

\* A dict with every key of the form.
Dict(c, t, l, a, b) ==
    [none |-> FALSE, has |-> ConfirmKeys \cup {"posted_by", "timestamp"},
     company_name |-> c, job_title |-> t, location |-> l, min_salary |-> a, max_salary |-> b]

\* What the field extraction service may return: a best-effort partial
\* record, untrusted.
ExtractedRecords ==
    {[Dict(<<"a">>, <<"b">>, <<"a">>, IntVal(12), IntVal(18)) EXCEPT !.has = ConfirmKeys],
     [Dict(<<"a">>, <<"b">>, <<"a">>, StrVal(<<"1", "2", "a">>), IntVal(18)) EXCEPT !.has = ConfirmKeys],
     [Dict(<<"a">>, <<"b">>, <<"a">>, IntVal(12), NoneVal) EXCEPT !.has = ConfirmKeys],
     [Dict(<<"a">>, <<"b">>, <<"a">>, IntVal(0 - 1), IntVal(18)) EXCEPT !.has = ConfirmKeys],
     [Dict(<<"a">>, <<"b">>, <<"a">>, IntVal(12), IntVal(18))
        EXCEPT !.has = ConfirmKeys \ {"is_ai_generated"}],
     [Dict(<<"a">>, <<"b">>, <<>>, NoneVal, IntVal(18))
        EXCEPT !.has = ConfirmKeys \ {"location", "min_salary"}],
     [Dict(<<>>, <<"b">>, <<"a">>, IntVal(12), IntVal(18)) EXCEPT !.has = ConfirmKeys],
     [NoData EXCEPT !.none = FALSE]}

\* `if st.session_state.job_data:` (line 79).
truthy(d) == ~d.none /\ d.has # {}

\* The form's fields as shown for job_data d (lines 85-108): .get with its
\* default for a key d lacks.
form_defaults(d) ==
    [posted_by |-> <<"R">>,
     company_name |-> IF "company_name" \in d.has THEN d.company_name ELSE <<>>,
     job_title |-> IF "job_title" \in d.has THEN d.job_title ELSE <<>>,
     location |-> IF "location" \in d.has THEN d.location ELSE <<"P", "u", "n", "e">>,
     min_salary |-> IF "min_salary" \in d.has THEN str(d.min_salary) ELSE Decimal(1000000),
     max_salary |-> IF "max_salary" \in d.has THEN str(d.max_salary) ELSE Decimal(1500000)]

\* Lines 123-130.
mandatory_fields_filled(f) ==
    /\ f.posted_by # <<>> /\ f.company_name # <<>> /\ f.job_title # <<>>
    /\ f.location # <<>> /\ f.min_salary # <<>> /\ f.max_salary # <<>>

\* The salary texts typed into the form.
SalaryInputs ==
    {<<>>, <<"7">>, <<"1", "2">>, <<"0", "7">>, <<"-", "1">>, <<"1", ".", "5">>,
     <<"a">>, <<"U+0663">>, <<"U+00B2">>}

\* The forms submitted: every salary text as the minimum, and as the maximum
\* an empty text, a decimal one and one of digits that are not decimal.
Forms ==
    [posted_by : {<<"R">>}, company_name : {<<>>, <<"a">>}, job_title : {<<"b">>},
     location : {<<"a">>}, min_salary : SalaryInputs,
     max_salary : {<<>>, <<"1", "2">>, <<"U+00B2">>}]

NoForm ==
    [posted_by |-> <<>>, company_name |-> <<>>, job_title |-> <<>>, location |-> <<>>,
     min_salary |-> <<>>, max_salary |-> <<>>]

\* What a handler did: raise: an exception left it; handed: the salaries of
\* the JobData given to run; ran: run was called; posting: what run
\* returned; logs, notes: calls of log_job_data and send_slack_notification.
NoEffect ==
    [raise |-> FALSE, handed |-> <<NoneVal, NoneVal>>, ran |-> FALSE, posting |-> RetNone,
     logs |-> 0, log_success |-> FALSE, notes |-> 0]

\* The 'Update Details' handler (lines 133-152) on the submitted form f:
\* data is the new job_data.
update_details(f) ==
    LET a == coerce(f.min_salary)
        b == coerce(f.max_salary)
    IN  IF a.raise \/ b.raise THEN [raise |-> TRUE, data |-> NoData]
        ELSE [raise |-> FALSE,
              data |-> Dict(f.company_name, f.job_title, f.location, IntVal(a.n), IntVal(b.n))]

\* send_slack_notification (slack_notifier.py): o[1]: chat_postMessage.
\* SlackApiError gives None, any other exception leaves the function.
send_slack_notification(o) ==
    [ret |-> IF o[1] = "ok" THEN RetTrue ELSE IF o[1] = "SlackApiError" THEN RetNone ELSE RetRaise]

\* The 'Confirm & Proceed' handler notifying only after a successful log.
confirm_and_proceed_LogGates(d, rr, log_ok, o) ==
    IF ~(ConfirmKeys \subseteq d.has) THEN [NoEffect EXCEPT !.raise = TRUE]
    ELSE LET r == [NoEffect EXCEPT !.handed = <<d.min_salary, d.max_salary>>,
                                   !.ran = TRUE, !.posting = rr]
         IN  IF rr = RetRaise THEN [r EXCEPT !.raise = TRUE]
             ELSE IF rr # RetTrue THEN r
             ELSE IF ~log_ok THEN [r EXCEPT !.logs = 1]
             ELSE [r EXCEPT !.logs = 1, !.log_success = log_ok, !.notes = 1,
                            !.raise = send_slack_notification(o).ret = RetRaise]

\* The 'Confirm & Proceed' handler logging and notifying whatever run gave.
confirm_and_proceed_Always(d, rr, log_ok, o) ==
    IF ~(ConfirmKeys \subseteq d.has) THEN [NoEffect EXCEPT !.raise = TRUE]
    ELSE LET r == [NoEffect EXCEPT !.handed = <<d.min_salary, d.max_salary>>,
                                   !.ran = TRUE, !.posting = rr]
         IN  IF rr = RetRaise THEN [r EXCEPT !.raise = TRUE]
             ELSE [r EXCEPT !.logs = 1, !.log_success = log_ok, !.notes = 1,
                            !.raise = send_slack_notification(o).ret = RetRaise]

\* The 'Confirm & Proceed' handler (lines 156-210) on job_data d.  A key d
\* lacks raises KeyError at lines 159-167.  rr: what automator.run gives
\* (line 178: True, False, or the exception leaving it), log_ok: what
\* log_job_data returns (line 188), o: what chat_postMessage does (line 205).
confirm_and_proceed(d, rr, log_ok, o) ==
    IF ~(ConfirmKeys \subseteq d.has) THEN [NoEffect EXCEPT !.raise = TRUE]
    ELSE LET r == [NoEffect EXCEPT !.handed = <<d.min_salary, d.max_salary>>,
                                   !.ran = TRUE, !.posting = rr]
         IN  IF rr = RetRaise THEN [r EXCEPT !.raise = TRUE]
             ELSE IF rr # RetTrue THEN r
             ELSE [r EXCEPT !.logs = 1, !.log_success = log_ok, !.notes = 1,
                            !.raise = send_slack_notification(o).ret = RetRaise]

\* What the widgets of the form return in a script run that shows the form
\* for job_data d (lines 85-108), when the application is a: the texts last
\* submitted, not the values job_data holds.  A widget shown with the default
\* it had in the script run before returns what it returned then.  One whose
\* default changed since is, for the widget toolkit (which is not part of
\* the repository), either a new widget returning its default or the same
\* widget still returning the text submitted.
widget_values(a, d) ==
    {[k \in DOMAIN NoForm |->
        IF a.shown[k] = form_defaults(d)[k] THEN a.widgets[k] ELSE form_defaults(d)[k]]}
        \cup (IF a.typed = NoForm THEN {} ELSE {a.typed})

\* The application before any handler ran.  op: the button whose click the
\* last script run handled; form: the form that click submitted; r: what the
\* handler did; typed: the form submitted last in the session; widgets: what
\* the form's widgets returned in the last script run and shown: the
\* defaults they had in it (NoForm when the form was not shown); button:
\* the last script run put 'Confirm & Proceed' on the page.
NoApp ==
    [job_data |-> NoData, op |-> "none", form |-> NoForm, r |-> NoEffect,
     typed |-> NoForm, widgets |-> NoForm, shown |-> NoForm, button |-> FALSE]


(***************************************************************************)
(* The state.                                                              *)
(***************************************************************************)
VARIABLES
    pc,         \* where run is: "idle", "setup", "stage", "teardown", "returned"
    stage,      \* the stage run is at (1..NumStages), 0 before the first
    step,       \* the block the stage is at (stages 15 to 17)
    job,        \* the JobData passed to run
    jobIn,      \* its value when run was called
    driver,     \* self.driver: 0 for None, else the session it refers to
    sessions,   \* sessions[s]: how many times quit was called on session s
    opened,     \* the session this run created, 0 when none
    quitCalls,  \* calls of quit made by this run
    context,    \* the interaction context: "default" or "frame"
    success,    \* run's local variable
    outer,      \* run's `except Exception` handler was entered
    result,     \* what run gave its caller: "none" while it runs
    trace,      \* the stages called by this run, each with what it returned
    res,        \* the result of the stage or block executed last
    shots,      \* screenshots taken by the stage executing (or executed last)
    added,      \* interview stages added by setup_hiring_workflow
    acts,       \* what the stage executing (stages 15 and 17) did, in order
    runs,       \* calls of run made on this automator
    call,       \* the interaction primitive called last, with its result
    app,        \* the application (main.py): its session state and last handler
    OpenAIModel \* the class of get_model.py and the callers of get_instance

vars == <<pc, stage, step, job, jobIn, driver, sessions, opened, quitCalls, context,
          success, outer, result, trace, res, shots, added, acts, runs, call, app,
          OpenAIModel>>

\* Calls of run on one automator.
MaxRuns == 2

\* The job records run is called with (JobData, lines 52-65).
Jobs ==
    {[company_name |-> <<"a">>, job_title |-> <<"a">>, location |-> <<"b">>,
      min_salary |-> 1, max_salary |-> 2, job_description |-> <<"a", "b">>,
      job_function |-> "Sales", salary_breakup |-> <<"b">>],
     [company_name |-> <<"A", "b">>, job_title |-> <<"b">>, location |-> <<"a">>,
      min_salary |-> 2, max_salary |-> 1, job_description |-> <<>>,
      job_function |-> "Software Development", salary_breakup |-> <<>>]}

NoResult == [ret |-> RetNone, tried |-> {}]

\* No job: before run is called.
NoJob ==
    [company_name |-> <<>>, job_title |-> <<>>, location |-> <<>>,
     min_salary |-> 0, max_salary |-> 0, job_description |-> <<>>,
     job_function |-> "", salary_breakup |-> <<>>]

NoCall == [op |-> "none"]

\* Threads that call OpenAIModel.get_instance, and the calls each makes.
NumCallers == 2
MaxCalls == 2
Callers == 1..NumCallers

Init ==
    /\ pc = "idle"
    /\ stage = 0
    /\ step = 0
    /\ job = NoJob
    /\ jobIn = NoJob
    /\ driver = 0
    /\ sessions = <<>>
    /\ opened = 0
    /\ quitCalls = 0
    /\ context = "default"
    /\ success = FALSE
    /\ outer = FALSE
    /\ result = "none"
    /\ trace = <<>>
    /\ res = NoResult
    /\ shots = 0
    /\ added = <<>>
    /\ acts = <<>>
    /\ runs = 0
    /\ call = NoCall
    /\ app = NoApp
    /\ OpenAIModel = [instance |-> 0, loads |-> 0,
                      at |-> [t \in Callers |-> "out"],
                      made |-> [t \in Callers |-> 0],
                      got |-> [t \in Callers |-> <<>>]]

\* run(job_data) is called (lines 1602-1618).
RunCall ==
    /\ pc \in {"idle", "returned"}
    /\ runs < MaxRuns
    /\ \E j \in Jobs : job' = j /\ jobIn' = j
    /\ pc' = "setup"
    /\ stage' = 0
    /\ step' = 0
    /\ opened' = 0
    /\ quitCalls' = 0
    /\ success' = FALSE
    /\ outer' = FALSE
    /\ result' = "none"
    /\ trace' = <<>>
    /\ res' = NoResult
    /\ shots' = 0
    /\ added' = <<>>
    /\ acts' = <<>>
    /\ runs' = runs + 1
    /\ UNCHANGED <<driver, sessions, context, call, app,
          OpenAIModel>>

\* self.setup_driver() in run (line 1621): a new session, or the exception
\* reaches run's handler.
SetupDriver ==
    /\ pc = "setup"
    /\ \E o \in Executions(setup_driver, 1) :
        LET r == setup_driver(o)
        IN  /\ res' = r
            /\ IF r.created
               THEN /\ sessions' = Append(sessions, 0)
                    /\ driver' = Len(sessions) + 1
                    /\ opened' = Len(sessions) + 1
                    /\ context' = "default"
                    /\ pc' = "stage"
                    /\ stage' = 1
                    /\ step' = 1
                    /\ UNCHANGED <<success, outer>>
               ELSE /\ pc' = "teardown"
                    /\ success' = FALSE
                    /\ outer' = TRUE
                    /\ UNCHANGED <<sessions, driver, opened, context, stage, step>>
    /\ UNCHANGED <<job, jobIn, quitCalls, result, trace, shots, added, acts, runs, call, app,
          OpenAIModel>>

\* Stage i has ended with result r: run goes on as run_after says.
Done(i, r) ==
    /\ trace' = Append(trace, [stage |-> i, ret |-> r.ret])
    /\ res' = r
    /\ LET n == run_after(i, r.ret)
       IN  /\ pc' = n.pc
           /\ stage' = n.stage
           /\ success' = n.success
           /\ outer' = n.outer
    /\ step' = 1

At(i) == pc = "stage" /\ stage = i

\* self.teardown() in run's finally clause, and run's return (lines 1747-1751).
Teardown ==
    /\ pc = "teardown"
    /\ \E o \in Executions(LAMBDA x : teardown(driver, x), 1) :
        LET t == teardown(driver, o)
        IN  /\ quitCalls' = quitCalls + t.quits
            /\ sessions' = IF t.quits > 0
                           THEN [sessions EXCEPT ![driver] = @ + t.quits]
                           ELSE sessions
            /\ result' = run_return(success, t)
    /\ pc' = "returned"
    /\ UNCHANGED <<stage, step, job, jobIn, driver, opened, context, success, outer,
                   trace, res, shots, added, acts, runs, call, app,
          OpenAIModel>>


(***************************************************************************)
(* The stages, as run calls them (lines 1622-1736).                        *)
(***************************************************************************)

\* What no stage touches.
frame == <<job, jobIn, driver, sessions, opened, quitCalls, result, runs, call, app,
          OpenAIModel>>

\* A stage that normalises the company name of the job record in place.
Plain_Normalise ==
    /\ shots' = 0 /\ added' = <<>> /\ acts' = <<>>
    /\ job' = [job EXCEPT !.company_name = Lower(@)]
    /\ UNCHANGED <<jobIn, driver, sessions, opened, quitCalls, result, runs, call, app,
          OpenAIModel>>

\* A stage that is one action: it takes no screenshot and adds no interview stage.
Plain == shots' = 0 /\ added' = <<>> /\ acts' = <<>> /\ UNCHANGED frame

Login ==
    /\ At(1)
    /\ \E r \in LoginResults : Done(1, r)
    /\ Plain /\ UNCHANGED context

SelectPlacementOption ==
    /\ At(2)
    /\ \E o \in Executions(select_placement_option, 6) : Done(2, select_placement_option(o))
    /\ Plain /\ UNCHANGED context

FillCompanyData ==
    /\ At(3)
    /\ \E r1 \in SelectCompanyResults[job.company_name],
          a \in AddNewCompanyResults[job.company_name],
          r2 \in SelectCompanyResults[job.company_name] :
            Done(3, fill_company_data(r1, a, r2))
    /\ Plain /\ UNCHANGED context

FillJobProfileTitle ==
    /\ At(4)
    /\ \E o \in Executions(LAMBDA x : fill_job_profile_title(x, job.job_title), 3) :
            Done(4, fill_job_profile_title(o, job.job_title))
    /\ Plain /\ UNCHANGED context

FillJobProfileSource ==
    /\ At(5)
    /\ \E opts \in SourceOptionLists :
       \E o \in Executions(LAMBDA x : fill_job_profile_source(x, opts), 6) :
            Done(5, fill_job_profile_source(o, opts))
    /\ Plain /\ UNCHANGED context

FillJobLocation ==
    /\ At(6)
    /\ \E o \in Executions(LAMBDA x : fill_job_location(x, job.location), 3) :
            Done(6, fill_job_location(o, job.location))
    /\ Plain /\ UNCHANGED context

FillPositionType ==
    /\ At(7)
    /\ \E o \in Executions(fill_position_type, 6) : Done(7, fill_position_type(o))
    /\ Plain /\ UNCHANGED context

FillJobFunction ==
    /\ At(8)
    /\ \E o \in Executions(LAMBDA x : fill_job_function(x, job.job_function), 7) :
            Done(8, fill_job_function(o, job.job_function))
    /\ Plain /\ UNCHANGED context

FillCategory ==
    /\ At(9)
    /\ \E o \in Executions(fill_category, 4) : Done(9, fill_category(o))
    /\ Plain /\ UNCHANGED context

AddCtcDetails ==
    /\ At(10)
    /\ \E a \in JsInputResults(FieldDefault, Decimal(job.min_salary)),
          b \in JsInputResults(FieldDefault, Decimal(job.max_salary)) :
       \E o \in Executions(LAMBDA x : add_ctc_details(x, a, b), 7) :
            Done(10, add_ctc_details(o, a, b))
    /\ Plain /\ UNCHANGED context

ClickIsEquityCheckbox ==
    /\ At(11)
    /\ \E o \in Executions(click_is_equity_checkbox, 3) : Done(11, click_is_equity_checkbox(o))
    /\ Plain /\ UNCHANGED context

FillSalaryBreakup ==
    /\ At(12)
    /\ \E o \in Executions(LAMBDA x : fill_tinymce_field_by_label(x, context, job.salary_breakup), 8) :
        LET r == fill_tinymce_field_by_label(o, context, job.salary_breakup)
        IN  Done(12, r) /\ context' = r.ctx
    /\ Plain

FillJobDescription ==
    /\ At(13)
    /\ \E o \in Executions(LAMBDA x : fill_tinymce_field_by_label(x, context, job.job_description), 8) :
        LET r == fill_tinymce_field_by_label(o, context, job.job_description)
        IN  Done(13, r) /\ context' = r.ctx
    /\ Plain

ClickCreateAndConfirm ==
    /\ At(14)
    /\ \E o \in Executions(click_create_and_confirm, 11) : Done(14, click_create_and_confirm(o))
    /\ Plain /\ UNCHANGED context


\* A block of stage i has produced r: the stage returns, or goes on to its
\* next block.
Step(i, r) ==
    /\ shots' = (IF step = 1 THEN 0 ELSE shots) + r.shots
    /\ IF r.go = "return"
       THEN Done(i, r)
       ELSE /\ step' = step + 1
            /\ res' = r
            /\ UNCHANGED <<pc, stage, success, outer, trace>>

\* What a block of stages 15 and 16 leaves alone.
Block == added' = <<>> /\ UNCHANGED <<frame, context>>

\* The block did a: the first block of a stage starts the record anew.
Record(a) == acts' = (IF step = 1 THEN <<>> ELSE acts) \o a

\* What the blocks can do: every lookup, every click chain, every execution.
CoursesLinkResults ==
    UNION {{select_applicable_courses_link(l, o, c) :
                o \in Executions(LAMBDA x : select_applicable_courses_link(l, x, c), 3)} :
                l \in FindFirstResults[4], c \in ClickChainResults[3]}

CoursesAddButtonResults ==
    UNION {{select_applicable_courses_add_button(l, found, o, c) :
                o \in Executions(LAMBDA x : select_applicable_courses_add_button(l, found, x, c), 5)} :
                l \in FindFirstResults[4], found \in BOOLEAN, c \in ClickChainResults[3]}

CoursesPopupResults ==
    {select_applicable_courses_popup(o) : o \in Executions(select_applicable_courses_popup, 3)}

CoursesCheckboxesResults ==
    {select_applicable_courses_checkboxes(l) : l \in FindFirstResults[4]}

CoursesCheckResults ==
    UNION {{select_applicable_courses_check(o, c) :
                o \in Executions(LAMBDA x : select_applicable_courses_check(x, c), 3)} :
                c \in ClickChainResults[3]}

CoursesSaveResults ==
    UNION {{select_applicable_courses_save(l, o, c) :
                o \in Executions(LAMBDA x : select_applicable_courses_save(l, x, c), 3)} :
                l \in FindFirstResults[4], c \in ClickChainResults[2]}

CoursesVerifyResults ==
    UNION {{select_applicable_courses_verify(o, seen) :
                o \in Executions(LAMBDA x : select_applicable_courses_verify(x, seen), 1)} :
                seen \in BOOLEAN}

EligibilityLinkResults ==
    UNION {{set_eligibility_criteria_link(l, o, c) :
                o \in Executions(LAMBDA x : set_eligibility_criteria_link(l, x, c), 2)} :
                l \in FindFirstResults[4], c \in ClickChainResults[3]}

EligibilityAllowAllResults ==
    UNION {{set_eligibility_criteria_allow_all(l, found, o, c) :
                o \in Executions(LAMBDA x : set_eligibility_criteria_allow_all(l, found, x, c), 4)} :
                l \in FindFirstResults[4], found \in BOOLEAN, c \in ClickChainResults[3]}

EligibilityConfirmResults ==
    UNION {{set_eligibility_criteria_confirm(o, c) :
                o \in Executions(LAMBDA x : set_eligibility_criteria_confirm(x, c), 3)} :
                c \in ClickChainResults[2]}

EligibilityVerifyResults ==
    UNION {{set_eligibility_criteria_verify(o, seen) :
                o \in Executions(LAMBDA x : set_eligibility_criteria_verify(x, seen), 2)} :
                seen \in BOOLEAN}

WorkflowLinkResults ==
    UNION {{setup_hiring_workflow_link(l, o, c) :
                o \in Executions(LAMBDA x : setup_hiring_workflow_link(l, x, c), 2)} :
                l \in FindFirstResults[4], c \in ClickChainResults[3]}

WorkflowAddStageResults ==
    UNION {{setup_hiring_workflow_add_stage(o, c) :
                o \in Executions(LAMBDA x : setup_hiring_workflow_add_stage(x, c), 5)} :
                c \in ClickChainResults[2]}

WorkflowSubmitResults ==
    UNION {{setup_hiring_workflow_submit(l, found, o, c) :
                o \in Executions(LAMBDA x : setup_hiring_workflow_submit(l, found, x, c), 4)} :
                l \in FindFirstResults[3], found \in BOOLEAN, c \in ClickChainResults[3]}

WorkflowConfirmResults ==
    {setup_hiring_workflow_confirm(o) : o \in Executions(setup_hiring_workflow_confirm, 4)}

WorkflowVerifyResults ==
    UNION {{setup_hiring_workflow_verify(o, seen) :
                o \in Executions(LAMBDA x : setup_hiring_workflow_verify(x, seen), 1)} :
                seen \in BOOLEAN}

CoursesLink ==
    /\ At(15) /\ step = 1
    /\ \E r \in CoursesLinkResults : Step(15, r)
    /\ Block /\ Record(<<>>)

CoursesAddButton ==
    /\ At(15) /\ step = 2
    /\ \E r \in CoursesAddButtonResults : Step(15, r)
    /\ Block /\ Record(<<>>)

CoursesPopup ==
    /\ At(15) /\ step = 3
    /\ \E r \in CoursesPopupResults : Step(15, r)
    /\ Block /\ Record(<<>>)

CoursesCheckboxes ==
    /\ At(15) /\ step = 4
    /\ \E r \in CoursesCheckboxesResults :
        Step(15, r) /\ Record(IF r.by = 0 THEN <<"no checkbox">> ELSE <<>>)
    /\ Block

CoursesCheck ==
    /\ At(15) /\ step = 5
    /\ \E r \in CoursesCheckResults :
        Step(15, r) /\ Record(IF r.via # 0 THEN <<"checkbox">> ELSE <<>>)
    /\ Block

CoursesSave ==
    /\ At(15) /\ step = 6
    /\ \E r \in CoursesSaveResults :
        Step(15, r) /\ Record(IF r.via # 0 THEN <<"Save">> ELSE <<>>)
    /\ Block

CoursesVerify ==
    /\ At(15) /\ step = 7
    /\ \E r \in CoursesVerifyResults : Step(15, r)
    /\ Block /\ Record(<<>>)

EligibilityLink ==
    /\ At(16) /\ step = 1
    /\ \E r \in EligibilityLinkResults : Step(16, r)
    /\ Block /\ Record(<<>>)

EligibilityAllowAll ==
    /\ At(16) /\ step = 2
    /\ \E r \in EligibilityAllowAllResults : Step(16, r)
    /\ Block /\ Record(<<>>)

EligibilityConfirm ==
    /\ At(16) /\ step = 3
    /\ \E r \in EligibilityConfirmResults : Step(16, r)
    /\ Block /\ Record(<<>>)

EligibilityVerify ==
    /\ At(16) /\ step = 4
    /\ \E r \in EligibilityVerifyResults : Step(16, r)
    /\ Block /\ Record(<<>>)

WorkflowLink ==
    /\ At(17) /\ step = 1
    /\ \E r \in WorkflowLinkResults : Step(17, r)
    /\ Block /\ Record(<<>>)

\* The loop over HiringStages: blocks 2, 3 and 4 of the stage.
WorkflowAddStage ==
    /\ At(17) /\ step \in 2..(Len(HiringStages) + 1)
    /\ \E r \in WorkflowAddStageResults :
        /\ Step(17, r)
        /\ added' = IF r.added THEN Append(added, HiringStages[step - 1]) ELSE added
    /\ Record(<<HiringStages[step - 1]>>)
    /\ UNCHANGED <<frame, context>>

WorkflowSubmit ==
    /\ At(17) /\ step = Len(HiringStages) + 2
    /\ \E r \in WorkflowSubmitResults :
        Step(17, r) /\ Record(IF r.press THEN <<"Submit Now">> ELSE <<>>)
    /\ UNCHANGED <<frame, context, added>>

WorkflowConfirm ==
    /\ At(17) /\ step = Len(HiringStages) + 3
    /\ \E r \in WorkflowConfirmResults : Step(17, r)
    /\ Record(<<>>)
    /\ UNCHANGED <<frame, context, added>>

WorkflowVerify ==
    /\ At(17) /\ step = Len(HiringStages) + 4
    /\ \E r \in WorkflowVerifyResults : Step(17, r)
    /\ Record(<<>>)
    /\ UNCHANGED <<frame, context, added>>

Next ==
    \/ RunCall \/ SetupDriver \/ Teardown
    \/ Login \/ SelectPlacementOption \/ FillCompanyData \/ FillJobProfileTitle
    \/ FillJobProfileSource \/ FillJobLocation \/ FillPositionType \/ FillJobFunction
    \/ FillCategory \/ AddCtcDetails \/ ClickIsEquityCheckbox \/ FillSalaryBreakup
    \/ FillJobDescription \/ ClickCreateAndConfirm
    \/ CoursesLink \/ CoursesAddButton \/ CoursesPopup \/ CoursesCheckboxes
    \/ CoursesCheck \/ CoursesSave \/ CoursesVerify
    \/ EligibilityLink \/ EligibilityAllowAll \/ EligibilityConfirm \/ EligibilityVerify
    \/ WorkflowLink \/ WorkflowAddStage \/ WorkflowSubmit \/ WorkflowConfirm
    \/ WorkflowVerify

Spec == Init /\ [][Next]_vars

(***************************************************************************)
(* The interaction primitives on their own: calls of safe_click,           *)
(* safe_input and js_input on an ElementInteraction, with every script of  *)
(* outcomes and every text.  `call` holds the call made last.              *)
(***************************************************************************)
rest == <<pc, stage, step, job, jobIn, driver, sessions, opened, quitCalls, context,
          success, outer, result, trace, res, shots, added, acts, runs, app,
          OpenAIModel>>

SafeClick ==
    /\ \E o \in Executions(safe_click, 3) :
        call' = [op |-> "safe_click", o |-> o, old |-> <<>>, value |-> <<>>,
                 r |-> safe_click(o)]
    /\ UNCHANGED rest

SafeInput ==
    /\ \E old \in Texts, v \in Texts :
       \E o \in Executions(LAMBDA x : safe_input(x, old, v), 2) :
        call' = [op |-> "safe_input", o |-> o, old |-> old, value |-> v,
                 r |-> safe_input(o, old, v)]
    /\ UNCHANGED rest

JsInput ==
    /\ \E old \in Texts, v \in Texts :
       \E o \in Executions(LAMBDA x : js_input(x, old, v), 1) :
        call' = [op |-> "js_input", o |-> o, old |-> old, value |-> v,
                 r |-> js_input(o, old, v)]
    /\ UNCHANGED rest

NextPrim == SafeClick \/ SafeInput \/ JsInput

SpecPrim == Init /\ [][NextPrim]_vars


(***************************************************************************)
(* The multi-selector lookups on their own: _find_login_button and the     *)
(* selector loops of stages 15 to 17, with every script of outcomes.       *)
(***************************************************************************)
FindLoginButton ==
    /\ \E o \in Executions(_find_login_button, 3) :
        call' = [op |-> "_find_login_button", n |-> 3, o |-> o, r |-> _find_login_button(o)]
    /\ UNCHANGED rest

FindFirst ==
    /\ \E n \in 3..4 :
       \E o \in Executions(LAMBDA x : find_first(x, n), n) :
        call' = [op |-> "find_first", n |-> n, o |-> o, r |-> find_first(o, n)]
    /\ UNCHANGED rest

NextLookup == FindLoginButton \/ FindFirst

SpecLookup == Init /\ [][NextLookup]_vars


(***************************************************************************)
(* The two company operations on their own: calls of select_company and    *)
(* add_new_company with every name, every list the site may show and every *)
(* script of outcomes.  The operations keep no state between calls: a      *)
(* behaviour makes one call, which `call` holds.                           *)
(***************************************************************************)

SelectCompany ==
    /\ call = NoCall
    /\ \E n \in CompanyNames, l \in SuggestionLists :
       \E o \in Executions(LAMBDA x : select_company(x, n, l), 6) :
        call' = [op |-> "select_company", name |-> n, list |-> l, o |-> o,
                 r |-> select_company(o, n, l)]
    /\ UNCHANGED rest

AddNewCompany ==
    /\ call = NoCall
    /\ \E n \in CompanyNames, d \in BOOLEAN, e \in ModalLists :
       \E o \in Executions(LAMBDA x : add_new_company(x, n, d, e), 13) :
        call' = [op |-> "add_new_company", name |-> n, displayed |-> d, list |-> e, o |-> o,
                 r |-> add_new_company(o, n, d, e)]
    /\ UNCHANGED rest

NextCompany == SelectCompany \/ AddNewCompany

SpecCompany == Init /\ [][NextCompany]_vars


(***************************************************************************)
(* The application on its own: the three buttons of main.py.  Each click   *)
(* runs the script once, top to bottom; `app` holds the session's job_data, *)
(* what the widgets returned in that script run and what its handler did.   *)
(* The handler of 'Confirm & Proceed' builds a SupersetAutomator of its own *)
(* (lines 172-177) and calls run on it once: that automator is not the one  *)
(* the variables of run describe, and its run is present here by what it    *)
(* gives the handler (True, False or an exception).                         *)
(***************************************************************************)

\* What the application's handlers leave alone.
others == <<pc, stage, step, job, jobIn, driver, sessions, opened, quitCalls, context,
            success, outer, result, trace, res, shots, added, acts, runs, call,
            OpenAIModel>>

\* 'Extract Job Details' (lines 63-76): job_data becomes what the service
\* returned; on blank input or an exception it stays.  The script goes on
\* to show the form for the new job_data (lines 79-130) and, when the
\* widgets' values fill the mandatory fields, the button (lines 155-156).
ExtractJobDetails ==
    /\ \E d \in ExtractedRecords \cup {app.job_data} :
        \E w \in (IF truthy(d) THEN widget_values(app, d) ELSE {NoForm}) :
            app' = [job_data |-> d, op |-> "extract", form |-> NoForm, r |-> NoEffect,
                    typed |-> app.typed, widgets |-> w,
                    shown |-> IF truthy(d) THEN form_defaults(d) ELSE NoForm,
                    button |-> truthy(d) /\ mandatory_fields_filled(w)]
    /\ UNCHANGED others

\* 'Update Details' (lines 133-152), shown while job_data is truthy: the
\* widgets return the form submitted.  An exception at lines 142-143 ends
\* the script run before line 155: the button is not put on the page.
UpdateDetails ==
    /\ truthy(app.job_data)
    /\ \E f \in Forms :
        LET u == update_details(f)
        IN  app' = [job_data |-> IF u.raise THEN app.job_data ELSE u.data,
                    op |-> "update", form |-> f,
                    r |-> [NoEffect EXCEPT !.raise = u.raise],
                    typed |-> f, widgets |-> f, shown |-> form_defaults(app.job_data),
                    button |-> ~u.raise /\ mandatory_fields_filled(f)]
    /\ UNCHANGED others

\* 'Confirm & Proceed' (lines 155-210): the button was on the page, and the
\* script run of the click reaches it again, job_data being truthy (line 79)
\* and the values the widgets return filling the mandatory fields (line 155).
ConfirmAndProceed ==
    /\ app.button
    /\ truthy(app.job_data)
    /\ \E w \in widget_values(app, app.job_data) :
        /\ mandatory_fields_filled(w)
        /\ \E rr \in {RetTrue, RetFalse, RetRaise}, log_ok \in BOOLEAN,
              o \in {<<"ok">>, <<"SlackApiError">>, <<"Error">>} :
            app' = [job_data |-> app.job_data, op |-> "confirm", form |-> NoForm,
                    r |-> confirm_and_proceed(app.job_data, rr, log_ok, o),
                    typed |-> app.typed, widgets |-> w,
                    shown |-> form_defaults(app.job_data), button |-> TRUE]
    /\ UNCHANGED others

NextApp == ExtractJobDetails \/ UpdateDetails \/ ConfirmAndProceed

SpecApp == Init /\ [][NextApp]_vars


(***************************************************************************)
(* OpenAIModel.get_instance (get_model.py, lines 6-12), called from        *)
(* several threads.  The class attribute _instance is OpenAIModel.instance *)
(* (0 for None, else the object load_model returned, numbered by the call  *)
(* that made it); loads counts the calls of load_model.  A caller is "out" *)
(* of get_instance, or at the statement it executes next; made[t] is the   *)
(* value load_model returned to it, got[t] what its calls returned.  The   *)
(* method takes no lock: a thread may be pre-empted between any two of the *)
(* steps below.                                                            *)
(***************************************************************************)
classless == <<pc, stage, step, job, jobIn, driver, sessions, opened, quitCalls, context,
               success, outer, result, trace, res, shots, added, acts, runs, call, app>>

\* Line 9: `if cls._instance is None`.
GetInstance(t) ==
    /\ OpenAIModel.at[t] = "out"
    /\ Len(OpenAIModel.got[t]) < MaxCalls
    /\ OpenAIModel' = [OpenAIModel EXCEPT
            !.at[t] = IF OpenAIModel.instance = 0 THEN "load" ELSE "return"]
    /\ UNCHANGED classless

\* Line 11, right-hand side: load_model() builds a new AzureChatOpenAI
\* (lines 14-30).
LoadModel(t) ==
    /\ OpenAIModel.at[t] = "load"
    /\ OpenAIModel' = [OpenAIModel EXCEPT !.loads = @ + 1,
                                          !.made[t] = OpenAIModel.loads + 1,
                                          !.at[t] = "store"]
    /\ UNCHANGED classless

\* Line 11, the assignment to cls._instance.
StoreInstance(t) ==
    /\ OpenAIModel.at[t] = "store"
    /\ OpenAIModel' = [OpenAIModel EXCEPT !.instance = OpenAIModel.made[t],
                                          !.at[t] = "return"]
    /\ UNCHANGED classless

\* Line 12: `return cls._instance` reads the attribute again.
ReturnInstance(t) ==
    /\ OpenAIModel.at[t] = "return"
    /\ OpenAIModel' = [OpenAIModel EXCEPT !.got[t] = Append(@, OpenAIModel.instance),
                                          !.made[t] = 0,
                                          !.at[t] = "out"]
    /\ UNCHANGED classless

NextModel ==
    \/ \E t \in Callers : GetInstance(t)
    \/ \E t \in Callers : LoadModel(t)
    \/ \E t \in Callers : StoreInstance(t)
    \/ \E t \in Callers : ReturnInstance(t)

SpecModel == Init /\ [][NextModel]_vars


(***************************************************************************)
(* Properties of run.                                                      *)
(***************************************************************************)

\* run has returned to its caller (or raised).
Returned == pc = "returned"

\* The stages called so far were called in order, and each reported Success.
InOrderAllSuccess == \A i \in 1..Len(trace) : trace[i] = [stage |-> i, ret |-> RetTrue]

\* Stage i of the trace reported Failed: it returned, and not True.
Failed(i) == trace[i].ret \notin {RetTrue, RetRaise}

\* C1: run returns True if and only if every one of the 17 stages was
\* executed and reported Success, in the order of the specification.
C1_TrueIffAllStagesSucceeded ==
    Returned => (result = RetTrue <=> (Len(trace) = NumStages /\ InOrderAllSuccess))

\* C2: fail-fast: once a stage has reported Failed no later stage is started,
\* the stage is not called again, and run returns False.
C2_FailFast ==
    \A i \in 1..Len(trace) :
        Failed(i) =>
            /\ i = Len(trace)
            /\ pc \in {"teardown", "returned"}
            /\ (Returned => result = RetFalse)

\* C3: when a run has ended, however it ended, the session it opened is not
\* open any more: quit has been called on it.
C3_SessionReleased ==
    (Returned /\ opened # 0) => sessions[opened] >= 1

\* A run that opened a session and left the stages by an exception has ended.
C3_Witness ==
    Returned /\ opened # 0 /\ outer /\ Len(trace) > 0 /\ sessions[opened] >= 1

\* C4: on every exit path of a run that opened a session, quit is called on
\* that session exactly once: not zero times, not twice.
C4_QuitExactlyOnce ==
    (Returned /\ opened # 0) => (quitCalls = 1 /\ sessions[opened] = 1)

\* A run that opened a session and returned early after a Failed stage.
C4_Witness ==
    /\ Returned /\ opened # 0 /\ ~outer /\ ~success
    /\ Len(trace) > 0 /\ Failed(Len(trace))
    /\ quitCalls = 1

\* C5: the interaction context is the default surface at every stage
\* boundary: each rich-text stage leaves it there on every exit path.
C5_ContextRestored ==
    pc \in {"stage", "teardown"} => context = "default"

\* C6: no exception crosses a stage boundary: every stage called by run
\* returns a boolean, so run's handler is never entered because of a stage.
C6_NoStageRaises ==
    \A i \in 1..Len(trace) : trace[i].ret \in {RetTrue, RetFalse}

\* The company stage has just ended: res is what fill_company_data gave.
CompanyStageDone == Len(trace) = 3

\* C7: in one company stage add_new_company is called at most once, only
\* after the first search returned False and before the second search; it is
\* never called when the first search selected; the search made after the
\* creation is the last call of the stage.
C7_CreateAtMostOnce ==
    CompanyStageDone =>
        LET c == res.calls
            v == res.rets
            adds == {i \in 1..Len(c) : c[i] = "add"}
        IN  /\ Cardinality(adds) <= 1
            /\ c[1] = "select"
            /\ v[1] = RetTrue => adds = {}
            /\ \A i \in adds : i = 2 /\ v[1] = RetFalse
            /\ \A i \in 2..Len(c) :
                c[i] = "select" => (i = 3 /\ i = Len(c) /\ c[2] = "add" /\ v[2] = RetTrue)

\* The first search selected nothing, the company was created, and the search
\* after the creation selected nothing either.
C7_Witness ==
    /\ CompanyStageDone
    /\ res.calls = <<"select", "add", "select">>
    /\ res.rets = <<RetFalse, RetTrue, RetFalse>>

\* C8: the company stage reports Success only if a company was selected, by
\* the first search or by the search made after the creation.
C8_SuccessOnlyIfSelected ==
    (CompanyStageDone /\ res.ret = RetTrue) => res.selected


\* The salary stage has just ended: res is what add_ctc_details gave.
CtcStageDone == Len(trace) = 10 /\ trace[10].stage = 10

\* C12: when the salary stage reports Success the minimum and maximum fields
\* hold exactly job_data.min_salary and job_data.max_salary: both forced
\* assignments completed.
C12_SalaryFieldsHoldJobValues ==
    (CtcStageDone /\ res.ret = RetTrue) =>
        /\ res.wrote = <<RetTrue, RetTrue>>
        /\ res.min = Decimal(job.min_salary)
        /\ res.max = Decimal(job.max_salary)


\* The job-title stage has just ended: res is what fill_job_profile_title gave.
TitleStageDone == Len(trace) = 4 /\ trace[4].stage = 4

\* C14, for the job-title stage: when the stage fails because its control
\* (#title) is absent, it reports Failed, a diagnostic screenshot has been
\* captured for it, and the run ends with False.
C14_AbsentControlLeavesScreenshot ==
    (TitleStageDone /\ res.absent) =>
        /\ res.ret = RetFalse
        /\ shots >= 1
        /\ Returned => result = RetFalse


\* C15: when setup_driver raises, run returns False, no stage is executed and
\* no quit is issued.
C15_NoSessionNoQuit ==
    (Returned /\ opened = 0) =>
        (result = RetFalse /\ trace = <<>> /\ quitCalls = 0)


\* C16: run never propagates an exception: it returns a boolean, and False
\* when a fault reached its handler (session set-up, a stage) or quit failed.
C16_RunNeverRaises ==
    Returned =>
        /\ result \in {RetTrue, RetFalse}
        /\ outer => result = RetFalse


\* C17: the stages are called in the fixed order 1..17, stage k only after
\* stages 1..k-1 each reported Success; none is skipped and none is called
\* twice in a run.
C17_StageOrder ==
    /\ Len(trace) <= NumStages
    /\ \A i \in 1..Len(trace) : trace[i].stage = i
    /\ \A i \in 1..(Len(trace) - 1) : trace[i].ret = RetTrue
    /\ pc = "stage" => (stage = Len(trace) + 1 /\ InOrderAllSuccess)

\* The last stage is about to start: the sixteen before it reported Success.
C17_Witness ==
    pc = "stage" /\ stage = NumStages /\ step = 1 /\ Len(trace) = NumStages - 1


\* The login stage has just ended: res is what login gave.
LoginStageDone == Len(trace) = 1 /\ trace[1].stage = 1

\* C18: when an error banner with a non-empty text is detected after the
\* credentials were submitted, login returns False without waiting for the
\* post-login marker, present or not; login returns True only if the marker
\* was observed and no banner was detected.
C18_BannerFailsLogin ==
    LoginStageDone =>
        /\ res.banner => (res.ret = RetFalse /\ ~res.marker /\ 4 \notin res.tried)
        /\ res.ret = RetTrue => (res.marker /\ ~res.banner)

\* A banner was detected while the post-login marker is on the page.
C18_Witness ==
    LoginStageDone /\ res.banner /\ res.present /\ res.ret = RetFalse


\* C19: the job record is read-only during a run: from the call of run to
\* its return every field has the value it had at the call.
C19_JobReadOnly ==
    pc \in {"setup", "stage", "teardown", "returned"} => job = jobIn

\* A run on a record whose company name has capitals went through all the
\* stages and returned.
C19_Witness ==
    /\ Returned /\ Len(trace) = NumStages
    /\ jobIn.company_name = <<"A", "b">> /\ job = jobIn


\* The hiring-workflow stage has ended: res is what its last block gave.
WorkflowStageDone == Len(trace) = NumStages /\ trace[NumStages].stage = NumStages

\* C20: when the hiring-workflow stage reports Success the three interview
\* stages have been added, in the order Resume shortlisting, Technical
\* interview, HR interview, before the profile was submitted.
C20_AllInterviewStagesAdded ==
    (WorkflowStageDone /\ trace[NumStages].ret = RetTrue) => added = HiringStages


\* The create-profile stage has just ended: res is what
\* click_create_and_confirm gave.
CreateStageDone == Len(trace) = 14 /\ trace[14].stage = 14 /\ step = 1

\* C21, for stage 14: the stage reports Success only if the confirmation
\* dialog's button was located and clicked; if the dialog never appears the
\* stage reports Failed and run returns False.
C21_ConfirmDialogDecides ==
    CreateStageDone =>
        /\ trace[14].ret = RetTrue => (res.dialog = "shown" /\ res.ok)
        /\ res.dialog = "absent" =>
                (trace[14].ret = RetFalse /\ (Returned => result = RetFalse))


\* The posting-source stage has just ended: res is what
\* fill_job_profile_source gave.
SourceStageDone == Len(trace) = 5 /\ trace[5].stage = 5

\* C22: whenever the posting-source stage reports Success the option that
\* was clicked is 'Campus Placement', whatever options the dropdown offers
\* and in whatever order.
C22_SourceIsCampusPlacement ==
    (SourceStageDone /\ trace[5].ret = RetTrue) => res.chosen = "Campus Placement"


\* The applicable-courses stage has ended, and no later stage has begun:
\* acts is what the stage did.
CoursesStageDone == Len(trace) = 15 /\ trace[15].stage = 15 /\ step = 1

\* C23: whenever the applicable-courses stage reports Success one click (or
\* forced check) of the first checkbox completed and Save was clicked after
\* it; when no checkbox is found the stage reports Failed and Save is never
\* clicked.
C23_CourseSelectedThenSaved ==
    CoursesStageDone =>
        /\ trace[15].ret = RetTrue => acts = <<"checkbox", "Save">>
        /\ (\E i \in 1..Len(acts) : acts[i] = "no checkbox") =>
                (trace[15].ret = RetFalse /\ acts = <<"no checkbox">>)

\* The stage reported Success, having clicked the first checkbox and then
\* Save.
C23_Witness ==
    /\ CoursesStageDone /\ trace[15].ret = RetTrue
    /\ acts = <<"checkbox", "Save">>


\* Stage k (15 to 17) has ended after looking for its success indicators,
\* and no later stage has begun: res is what that look gave.
Verified(k) ==
    /\ Len(trace) = k /\ trace[k].stage = k /\ step = 1
    /\ "indicator" \in DOMAIN res

\* C28: in stages 14 to 17, once the confirm (or save) click has completed
\* the stage reports Success whether the success indicator is found or not:
\* two executions that differ only in the indicator give the same result.
C28_IndicatorDoesNotDecide ==
    /\ (CreateStageDone /\ res.indicator \in {"found", "absent"}) => trace[14].ret = RetTrue
    /\ \A k \in 15..17 : Verified(k) => trace[k].ret = RetTrue

\* The applicable-courses stage reported Success though no success
\* indicator was found after Save.
C28_Witness ==
    Verified(15) /\ res.indicator = "absent" /\ trace[15].ret = RetTrue


\* acts is what the hiring-workflow stage did so far: the stage is past its
\* first block, or has ended.
WorkflowActs == (At(NumStages) /\ step > 1) \/ Len(trace) = NumStages

\* a is the beginning of b.
IsPrefix(a, b) == Len(a) <= Len(b) /\ a = SubSeq(b, 1, Len(a))

\* C29: the three interview-stage additions are attempted once each, in the
\* order Resume shortlisting, Technical interview, HR interview, and the
\* Submit click only after the three; a failure to add one does not abort
\* the stage: once the first addition was attempted the stage does not end
\* before the three were.
C29_ThreeAttemptsThenSubmit ==
    WorkflowActs =>
        /\ IsPrefix(acts, HiringStages \o <<"Submit Now">>)
        /\ (Len(trace) = NumStages /\ Len(acts) > 0) => Len(acts) >= Len(HiringStages)


\* The positions of e in the sequence q.
Places(q, e) == {i \in 1..Len(q) : q[i] = e}

\* C30: in add_ctc_details the switch to range mode precedes every write,
\* the minimum is written before the maximum, each at most once and each
\* through the forced assignment (which dispatches the change notification);
\* when the range control or one of the two fields is not located the stage
\* reports Failed and no salary value has been written.
C30_RangeThenMinThenMax ==
    CtcStageDone =>
        LET e == res.events
            writes == Places(e, "ctcMin") \cup Places(e, "ctcMax")
        IN  /\ writes # {} => (res.range /\ e[1] = "range")
            /\ \A i \in Places(e, "ctcMin"), j \in Places(e, "ctcMax") : i < j
            /\ Cardinality(Places(e, "ctcMin")) <= 1 /\ Cardinality(Places(e, "ctcMax")) <= 1
            /\ Len(res.inputs) = Cardinality(writes)
            /\ res.missing =>
                    /\ trace[10].ret = RetFalse /\ writes = {}
                    /\ res.min = FieldDefault /\ res.max = FieldDefault

\* The stage switched to range mode, then wrote the minimum, then the maximum.
C30_Witness ==
    CtcStageDone /\ trace[10].ret = RetTrue /\ res.events = <<"range", "ctcMin", "ctcMax">>


\* The sessions quit was never called on.
OpenSessions == {x \in 1..Len(sessions) : sessions[x] = 0}

\* C31: over any sequence of run calls on one automator, at most one session
\* is open at any time, none is open between runs, and quit is called on
\* every session ever opened exactly once: never a second time on a session
\* an earlier run closed.
C31_SessionAccounting ==
    /\ Cardinality(OpenSessions) <= 1
    /\ pc \in {"idle", "returned"} => OpenSessions = {}
    /\ \A x \in 1..Len(sessions) : sessions[x] <= 1


\* C34: the result of login does not depend on what safe_input and
\* safe_click returned: whenever the page loaded, both fields and the login
\* button were found, no error banner was found and the post-login marker
\* is present, login returns True, also when entering a credential or the
\* click on the button returned False.
C34_LoginIgnoresPrimitiveResults ==
    LoginStageDone =>
        LET g == res.given
        IN  (g.found /\ g.b = "Element" /\ g.x = RetFalse /\ res.present) =>
                    trace[1].ret = RetTrue

\* Neither credential was entered, the click on the login button returned
\* False, and login returned True.
C34_Witness ==
    /\ LoginStageDone /\ trace[1].ret = RetTrue
    /\ res.given.e = RetFalse /\ res.given.p = RetFalse /\ res.given.c = RetFalse


\* Stage k (15 to 17) has ended in its first block, the navigation link,
\* and no later stage has begun: res is what that block gave.
EndedAtLink(k) ==
    /\ Len(trace) = k /\ trace[k].stage = k /\ step = 1
    /\ "chain" \in DOMAIN res

\* C35: on the navigation link of stages 15 to 17 the click methods are
\* tried in the order native, script, action chain, each only after the one
\* before raised; when the three raise, the stage reports Failed and none of
\* its further sub-steps executes.
C35_ClickChainExhausted ==
    \A k \in 15..17 :
        EndedAtLink(k) =>
            LET c == res.chain
            IN  /\ \A i \in c.tried : i > 1 => (i - 1) \in c.tried
                /\ c.via # 0 => c.tried = 1..c.via
                /\ (c.via = 0 /\ c.tried = 1..3) => (trace[k].ret = RetFalse /\ acts = <<>>)


(***************************************************************************)
(* Properties of the company operations.                                   *)
(***************************************************************************)

\* The suggestions of list l whose text contains the name, ignoring case.
Matching(name, l) == {i \in 1..Len(l) : Contains(Lower(name), Lower(l[i]))}

\* C32: select_company clicks the first suggestion, in list order, whose
\* text contains the company name case-insensitively, exactly that one, and
\* returns True; when no suggestion contains the name, or the suggestion list
\* never appears, it clicks nothing and returns False.
C32_FirstMatchingSuggestion ==
    call.op = "select_company" =>
        LET r == call.r
            hits == Matching(call.name, call.list)
        IN  /\ r.ret \in {RetTrue, RetFalse}
            /\ r.ret = RetTrue => (r.clicked \in hits /\ \A j \in hits : r.clicked <= j)
            /\ r.ret = RetFalse => r.clicked = 0
            /\ (hits = {} \/ call.o[4] # "ok") => (r.ret = RetFalse /\ r.clicked = 0)
            /\ (hits # {} /\ \A i \in 1..6 : call.o[i] = "ok") => r.ret = RetTrue

\* Two suggestions contain the name in another case, after one that does
\* not: the first of the two was clicked.
C32_Witness ==
    /\ call.op = "select_company" /\ call.name = <<"A", "b">>
    /\ call.list = <<<<"a">>, <<"a", "B">>>>
    /\ call.r.ret = RetTrue /\ call.r.clicked = 2

\* C33: add_new_company starts the creation modal only when the 'No matching
\* companies found' message is present and displayed; it returns True only
\* after the success toast was observed and False on every other path, never
\* raising; it clicks 'Add Company' also when no entry of the modal's list
\* matched the name exactly.
C33_AddNewCompany ==
    call.op = "add_new_company" =>
        LET r == call.r
            o == call.o
        IN  /\ r.modal => (o[1] = "ok" /\ o[2] = "ok" /\ call.displayed)
            /\ r.ret \in {RetTrue, RetFalse}
            /\ r.ret = RetTrue <=> r.toast
            /\ r.toast => (r.added /\ r.modal /\ \A i \in 1..13 : o[i] = "ok")
            /\ (call.displayed /\ \A i \in 1..12 : o[i] = "ok") => r.added

\* No entry of the modal's list equals the name, 'Add Company' was clicked
\* all the same and the toast was observed.
C33_Witness ==
    /\ call.op = "add_new_company" /\ call.r.picked = 0
    /\ call.r.added /\ call.r.ret = RetTrue


(***************************************************************************)
(* Properties of the application.                                          *)
(***************************************************************************)

\* The handler run last is 'Confirm & Proceed'.
ConfirmDone == app.op = "confirm"

\* The handler run last is 'Update Details'.
UpdateDone == app.op = "update"

\* C24: the logging call and the notification call are made only after
\* automator.run returned True, each at most once per confirmed posting; when
\* run returned False (or raised) neither is made.
C24_LogAndNotifyOnlyAfterSuccess ==
    ConfirmDone =>
        /\ (app.r.logs > 0 \/ app.r.notes > 0) => (app.r.ran /\ app.r.posting = RetTrue)
        /\ app.r.logs <= 1 /\ app.r.notes <= 1

\* run returned True, and the handler logged once and notified once.
C24_Witness ==
    ConfirmDone /\ app.r.posting = RetTrue /\ app.r.logs = 1 /\ app.r.notes = 1

\* C25: after a successful run, log_job_data returning a false value neither
\* changes the posting outcome nor keeps the notification from being sent.
C25_LogFailureKeepsNotification ==
    (ConfirmDone /\ app.r.logs = 1 /\ ~app.r.log_success) =>
        (app.r.posting = RetTrue /\ app.r.notes = 1)

\* run returned True, logging reported a failure, the notification was sent.
C25_Witness ==
    /\ ConfirmDone /\ app.r.posting = RetTrue
    /\ app.r.logs = 1 /\ ~app.r.log_success /\ app.r.notes = 1

\* What the coercion is to store for the text s: its number when s is made
\* of decimal digits only; 0 when s is empty or holds a character that is no
\* digit; for a text of digits some of which are not decimal, any
\* non-negative integer.
Coerced(s, v) ==
    /\ v.kind = "int" /\ v.n >= 0
    /\ (Len(s) > 0 /\ \A i \in 1..Len(s) : DecimalValue(s[i]) >= 0) => v.n = DecimalNumber(s)
    /\ ~isdigit(s) => v.n = 0

\* C26: 'Update Details' stores a salary input made of digits only as its
\* integer value and every other input as 0, with no check that the minimum
\* is at most the maximum: the handler completes and the stored salaries are
\* non-negative integers.
C26_SalaryCoercion ==
    UpdateDone =>
        /\ ~app.r.raise
        /\ Coerced(app.form.min_salary, app.job_data.min_salary)
        /\ Coerced(app.form.max_salary, app.job_data.max_salary)

\* C27: every JobData the application hands to run has a minimum and a
\* maximum salary that are non-negative integers, on every path through the
\* buttons, also when 'Update Details' was never pressed.
C27_HandedSalariesAreNonNegativeInts ==
    (ConfirmDone /\ app.r.ran) =>
        \A i \in 1..2 : app.r.handed[i].kind = "int" /\ app.r.handed[i].n >= 0


(***************************************************************************)
(* Properties of the interaction primitives.                               *)
(***************************************************************************)

\* A call of the primitive raised.
Faulted(c) == \E i \in c.r.tried : c.o[i] # "ok"

\* The forced click of safe_click was made and completed.
ForcedClickDone(c) == c.op = "safe_click" /\ 3 \in c.r.tried /\ c.o[3] = "ok"

\* C9: safe_click, safe_input and js_input never propagate an exception:
\* they return a boolean, and False whenever a call they make raised, in the
\* native path or in the forced fallback, unless the forced click completed.
C9_PrimitivesNeverRaise ==
    call.op # "none" =>
        /\ call.r.ret \in {RetTrue, RetFalse}
        /\ (Faulted(call) /\ ~ForcedClickDone(call)) => call.r.ret = RetFalse
        /\ ~Faulted(call) => call.r.ret = RetTrue

\* The forced click raised an exception that is no WebDriverException.
C9_Witness ==
    /\ call.op = "safe_click"
    /\ 3 \in call.r.tried /\ call.o[3] = "Error"
    /\ call.r.ret = RetFalse

\* C10: safe_click makes the forced click only when the native attempt
\* raised ElementClickInterceptedException; on any other native fault it
\* returns False with no forced click; when the native click completes no
\* forced click is made; at most one click registers.
C10_ForcedClickOnlyWhenIntercepted ==
    call.op = "safe_click" =>
        LET k == FirstFault(call.o, 1, 2)
            r == call.r
        IN  /\ 3 \in r.tried <=> (k # 0 /\ call.o[k] = "Intercepted")
            /\ (k # 0 /\ call.o[k] # "Intercepted") => (r.ret = RetFalse /\ r.clicks = <<>>)
            /\ k = 0 => (r.ret = RetTrue /\ r.clicks = <<"native">>)
            /\ Len(r.clicks) <= 1

\* The native click was intercepted and the forced click registered.
C10_Witness ==
    /\ call.op = "safe_click"
    /\ call.o[1] = "ok" /\ call.o[2] = "Intercepted"
    /\ call.r.clicks = <<"script">>

\* C11: when the native click is intercepted and the script click completes,
\* safe_click returns True; when the script of js_input completes, js_input
\* returns True, the element holds exactly the value passed and one input
\* event has been dispatched.
C11_ForcedFallbackSucceeds ==
    /\ (call.op = "safe_click" /\ 3 \in call.r.tried /\ call.o[3] = "ok") =>
            (call.r.ret = RetTrue /\ call.r.clicks = <<"script">>)
    /\ (call.op = "js_input" /\ call.o[1] = "ok") =>
            (call.r.ret = RetTrue /\ call.r.text = call.value /\ call.r.events = <<"input">>)

\* js_input has replaced the text of an element by another one.
C11_Witness ==
    /\ call.op = "js_input" /\ call.o[1] = "ok"
    /\ call.old = <<"a">> /\ call.value = <<"a", "b">>
    /\ call.r.text = <<"a", "b">>


(***************************************************************************)
(* Properties of the multi-selector lookups.                               *)
(***************************************************************************)

\* C13: in every multi-selector lookup the selectors are evaluated in
\* declaration order, each only after every earlier one failed to match; the
\* element returned is the one of the first selector that matches, and no
\* selector is evaluated after a match.
C13_OrderedFallback ==
    call.op \in {"_find_login_button", "find_first"} =>
        LET r == call.r
            o == call.o
        IN  /\ 1 \in r.tried
            /\ \A i \in r.tried : i > 1 => ((i - 1) \in r.tried /\ o[i - 1] # "ok")
            /\ r.by # 0 => (o[r.by] = "ok" /\ r.tried = 1..r.by)
            /\ r.by = 0 => \A i \in r.tried : o[i] # "ok"
            /\ (call.op = "find_first" /\ r.by = 0) => r.tried = 1..call.n

\* The first selector matched nothing, the second matched, and the later
\* ones would have matched too.
C13_Witness ==
    /\ call.op = "find_first" /\ call.n = 4
    /\ call.o = <<"Timeout", "ok", "ok", "ok">>
    /\ call.r.by = 2 /\ call.r.tried = 1..2


(***************************************************************************)
(* Properties of OpenAIModel.get_instance.                                 *)
(***************************************************************************)

\* C36: whatever the interleaving of the callers of get_instance,
\* load_model is called at most once and every call returns the same
\* instance.
C36_SingleInstance ==
    /\ OpenAIModel.loads <= 1
    /\ \A t, u \in Callers :
            \A i \in 1..Len(OpenAIModel.got[t]), j \in 1..Len(OpenAIModel.got[u]) :
                OpenAIModel.got[t][i] = OpenAIModel.got[u][j]

====
